---- MODULE Spec2Model ----
(***************************************************************************)
(* Model of the autonomous fix engine of codeless-ai:                      *)
(*   - the safety gate and the action parser/executor of AgentService      *)
(*     (src/src/services/agentService.ts),                                 *)
(*   - the approval path of ChatViewProvider (chatPanel),                   *)
(*   - the retry loops of AgentIntegration                                  *)
(*     (src/src/services/agentIntegration.ts).                              *)
(* Texts are TLA+ strings handled character by character; the regular      *)
(* expressions of the source are written as item sequences and matched by  *)
(* a small backtracking matcher.                                           *)
(***************************************************************************)
EXTENDS Integers, Sequences, FiniteSets, TLC

----------------------------------------------------------------------------
(* Characters and strings *)


Min(a, b) == IF a <= b THEN a ELSE b

\* the character of s at position i (1-based), "" outside the string
CharAt(s, i) == IF i >= 1 /\ i <= Len(s) THEN SubSeq(s, i, i) ELSE ""

WordChars ==
  { "a","b","c","d","e","f","g","h","i","j","k","l","m","n","o","p","q","r",
    "s","t","u","v","w","x","y","z",
    "A","B","C","D","E","F","G","H","I","J","K","L","M","N","O","P","Q","R",
    "S","T","U","V","W","X","Y","Z",
    "0","1","2","3","4","5","6","7","8","9","_" }

\* \w
IsWordChar(c) == c \in WordChars

\* \s
IsSpace(c) == c \in {" ", "\t", "\n", "\r"}

\* s has the text t at position i
HasAt(s, i, t) ==
  /\ i >= 1
  /\ i + Len(t) - 1 <= Len(s)
  /\ SubSeq(s, i, i + Len(t) - 1) = t

\* String.prototype.startsWith
StartsWith(s, t) == HasAt(s, 1, t)

\* String.prototype.trim
RECURSIVE TrimStart(_)
TrimStart(s) ==
  IF s # "" /\ IsSpace(SubSeq(s, 1, 1)) THEN TrimStart(SubSeq(s, 2, Len(s))) ELSE s

RECURSIVE TrimEnd(_)
TrimEnd(s) ==
  IF s # "" /\ IsSpace(SubSeq(s, Len(s), Len(s)))
  THEN TrimEnd(SubSeq(s, 1, Len(s) - 1)) ELSE s

Trim(s) == TrimEnd(TrimStart(s))

\* smallest position >= from where t occurs in s, 0 when there is none
RECURSIVE IndexOf(_, _, _)
IndexOf(s, t, from) ==
  IF from + Len(t) - 1 > Len(s) THEN 0
  ELSE IF HasAt(s, from, t) THEN from
  ELSE IndexOf(s, t, from + 1)

\* String.prototype.split('\n')
RECURSIVE SplitLines(_)
SplitLines(s) ==
  LET nl == IndexOf(s, "\n", 1)
  IN  IF nl = 0 THEN <<s>>
      ELSE <<SubSeq(s, 1, nl - 1)>> \o SplitLines(SubSeq(s, nl + 1, Len(s)))

\* the elements of a sequence
Range(seq) == { seq[i] : i \in DOMAIN seq }

----------------------------------------------------------------------------
(* The texts the operations are given *)

\* model responses
Responses ==
  { "",
    "~~~ts:a.ts\nx\n~~~",
    "~~~ts:a.ts\ny\n~~~\n~~~bash\nls; rm a.ts\n~~~",
    "~~~bash\nnpm run build\nrm -rf x\n~~~",
    "~~~sh\n$ ls\n# c\nxyz --flag\n~~~",
    "~~~\nplain\n~~~\n~~~ts:b.ts\n\n~~~" }

\* responses with several file blocks and several commands
BatchResponses ==
  { "~~~ts:a.ts\nx\n~~~\n~~~ts:b.ts\ny\n~~~\n~~~bash\nls\nrm -rf x\n~~~",
    "~~~ts:a.ts\nx\n~~~\n~~~ts:a.ts\nz\n~~~\n~~~sh\n$ ls\n# c\n\n  git status  \n~~~",
    "~~~bash\nrm -rf x\n~~~\n~~~zsh\n$ npm run build\nls\n~~~\n~~~js\nls\n~~~" }

\* responses whose blocks lack a path, a language or content
ParseResponses ==
  { "~~~ts\nx\n~~~",
    "~~~ts: \ny\n~~~",
    "~~~ts:b.ts\n \n~~~",
    "delete a.ts\n~~~ts: a.ts \n  new\n~~~\n~~~:b.ts\nq\n~~~",
    "~~~ts\nx\n~~~\n~~~ts:b.ts\n\n~~~\n~~~ts:a.ts\nv\n~~~" }

\* the responses whose blocks are matched once
ParsedResponses == Responses \cup BatchResponses \cup ParseResponses

\* command texts given to runCommand
CommandTexts ==
  { "rm -rf /tmp/x", "npm run build", " npm  run build ", "curl https://x -X POST",
    "curl https://x", "xyz-unknown-tool --flag", "ls; rm -rf x", "npm install",
    "npm run deploy", "git status", "git stash pop",
    "cp -rf a b", "cp a b", "sudo ls", "node x.js", "lsx", "" }

\* the trimmed command texts and response lines: the two table scans are
\* tabulated on them once, any other text is scanned directly
TabulatedTexts ==
  { Trim(c) : c \in CommandTexts }
  \cup UNION { { Trim(l) : l \in Range(SplitLines(r)) } : r \in Responses }

----------------------------------------------------------------------------
(* Regular expressions: a pattern is a sequence of items, anchored where   *)
(* the caller starts it.                                                   *)

Lit(t) == [k |-> "lit", s |-> t]

\* x?
Opt(t) == [k |-> "opt", s |-> t]

\* \s+
WS1 == [k |-> "ws1"]

\* \s*
WS0 == [k |-> "ws0"]

\* \b
WB == [k |-> "wb"]

\* .*
AnyChars == [k |-> "any"]

\* (p1|p2|...), each alternative a pattern
Alt(ps) == [k |-> "alt", ps |-> ps]

\* (w1|w2|...), each alternative a literal
AltLits(ws) == Alt({ <<Lit(w)>> : w \in ws })

RECURSIVE Ends(_, _, _)
RECURSIVE StepItem(_, _, _)
\* positions right after a match of item that starts at a position of starts
StepItem(item, s, starts) ==
  CASE item.k = "lit" -> { i + Len(item.s) : i \in { j \in starts : HasAt(s, j, item.s) } }
    [] item.k = "opt" -> starts \cup { i + Len(item.s) : i \in { j \in starts : HasAt(s, j, item.s) } }
    [] item.k = "ws1" -> { j \in 1..(Len(s) + 1) :
                            \E i \in starts : i < j /\ \A t \in i..(j - 1) : IsSpace(CharAt(s, t)) }
    [] item.k = "ws0" -> { j \in 1..(Len(s) + 1) :
                            \E i \in starts : i <= j /\ \A t \in i..(j - 1) : IsSpace(CharAt(s, t)) }
    [] item.k = "wb"  -> { i \in starts : IsWordChar(CharAt(s, i - 1)) # IsWordChar(CharAt(s, i)) }
    [] item.k = "any" -> { j \in 1..(Len(s) + 1) :
                            \E i \in starts : i <= j /\ \A t \in i..(j - 1) : CharAt(s, t) \notin {"\n", "\r"} }
    [] item.k = "alt" -> UNION { Ends(p, s, starts) : p \in item.ps }

\* positions right after a match of pattern p that starts at a position of starts
Ends(p, s, starts) ==
  IF Len(p) = 0 \/ starts = {} THEN starts
  ELSE Ends(Tail(p), s, StepItem(Head(p), s, starts))

\* RegExp.prototype.test for a pattern that begins with ^
TestAnchored(p, s) == Ends(p, s, {1}) # {}

\* /^w\b/
Cmd1(w) == <<Lit(w), WB>>

\* /^w\s+(a|b|...)\b/
Cmd2(w, subs) == <<Lit(w), WS1, AltLits(subs), WB>>

BuildVerbs == {"dev", "start", "build", "test", "lint", "format", "check", "compile", "watch"}

SAFE_COMMAND_PATTERNS ==
  { Cmd1(w) : w \in {"ls", "pwd", "cat", "head", "tail", "grep", "find", "which", "echo",
                     "wc", "diff", "file", "stat", "tree"} }
  \cup
  { <<Lit("npm"), WS1,
      Alt({ <<Lit(w)>> : w \in {"list", "ls", "outdated", "view", "info", "search", "help", "version"} }
          \cup { <<Lit("config"), WS1, Lit("get")>> }), WB>>,
    Cmd2("yarn", {"list", "info", "why", "outdated", "help"}),
    Cmd2("pnpm", {"list", "ls", "outdated", "why"}),
    <<Lit("npm"), WS1, Lit("run"), WS1, AltLits(BuildVerbs), WB>>,
    Cmd2("yarn", BuildVerbs),
    Cmd2("pnpm", BuildVerbs),
    Cmd2("npx", {"tsc", "eslint", "prettier", "jest", "vitest", "playwright"}),
    <<Lit("git"), WS1,
      Alt({ <<Lit(w)>> : w \in {"status", "log", "diff", "branch", "show", "remote", "tag",
                                "blame", "shortlog"} }
          \cup { <<Lit("stash"), WS1, Lit("list")>> }), WB>>,
    Cmd2("cargo", {"build", "test", "check", "clippy", "fmt", "doc"}),
    Cmd2("go", {"build", "test", "vet", "fmt", "doc"}),
    Cmd2("dotnet", {"build", "test", "run", "watch"}),
    <<Lit("python"), WS1, Lit("-m"), WS1,
      AltLits({"pytest", "unittest", "mypy", "black", "flake8"}), WB>> }
  \cup
  { Cmd1(w) : w \in {"tsc", "node", "deno", "bun", "pytest", "mypy"} }

DANGEROUS_COMMAND_PATTERNS ==
  { Cmd1(w) : w \in {"rm", "rmdir", "del", "unlink", "sudo", "su", "doas",
                     "apt", "apt-get", "yum", "dnf", "pacman",
                     "mv", "rsync",
                     "docker", "kubectl", "terraform", "aws", "gcloud", "az",
                     "kill", "pkill", "killall", "wget",
                     "mysql", "psql", "mongo", "redis-cli"} }
  \cup
  { Cmd2("npm", {"install", "i", "add", "uninstall", "remove", "update", "upgrade", "ci"}),
    Cmd2("yarn", {"add", "remove", "upgrade", "install"}),
    Cmd2("pnpm", {"add", "remove", "update", "install"}),
    Cmd2("pip", {"install", "uninstall"}),
    Cmd2("pip3", {"install", "uninstall"}),
    Cmd2("cargo", {"install", "uninstall"}),
    Cmd2("go", {"install", "get"}),
    Cmd2("gem", {"install", "uninstall"}),
    Cmd2("brew", {"install", "uninstall", "upgrade"}),
    Cmd2("git", {"push", "commit", "merge", "rebase", "reset", "checkout", "pull", "fetch",
                 "clone", "init"}),
    <<Lit("git"), WS1,
      Alt({ <<Lit("cherry-pick")>>, <<Lit("revert")>>,
            <<Lit("stash"), WS1, AltLits({"pop", "drop", "apply", "clear"})>> }), WB>>,
    <<Lit("cp"), WS1, Lit("-"), Opt("r"), Lit("f")>>,
    <<Lit("curl"), WB, AnyChars, AltLits({"-X", "--request"}), WS0,
      AltLits({"POST", "PUT", "DELETE", "PATCH"})>> }

\* DANGEROUS_COMMAND_PATTERNS.some(pattern => pattern.test(trimmed))
ScanDangerous(text) == \E p \in DANGEROUS_COMMAND_PATTERNS : TestAnchored(p, text)

\* SAFE_COMMAND_PATTERNS.some(pattern => pattern.test(trimmed))
ScanSafe(text) == \E p \in SAFE_COMMAND_PATTERNS : TestAnchored(p, text)

ScanTable ==
  [t \in TabulatedTexts |-> [dangerous |-> ScanDangerous(t), safe |-> ScanSafe(t)]]

MatchesDangerous(text) ==
  IF text \in TabulatedTexts THEN ScanTable[text].dangerous ELSE ScanDangerous(text)

MatchesSafe(text) ==
  IF text \in TabulatedTexts THEN ScanTable[text].safe ELSE ScanSafe(text)

\* isCommandSafe with the final return true
isCommandSafeDefaultAllow(command) ==
  LET trimmed == Trim(command)
  IN  IF MatchesDangerous(trimmed) THEN FALSE
      ELSE IF MatchesSafe(trimmed) THEN TRUE
      ELSE TRUE

\* isCommandSafe that looks at the dangerous table after the default
isCommandSafeDangerousLast(command) ==
  LET trimmed == Trim(command)
  IN  IF MatchesSafe(trimmed) THEN TRUE
      ELSE IF MatchesDangerous(trimmed) THEN TRUE
      ELSE FALSE

\* isCommandSafe that tests the command as given
isCommandSafeUntrimmed(command) ==
  IF MatchesDangerous(command) THEN FALSE
  ELSE IF MatchesSafe(command) THEN TRUE
  ELSE FALSE

isCommandSafe(command) ==
  LET trimmed == Trim(command)
  IN  IF MatchesDangerous(trimmed) THEN FALSE
      ELSE IF MatchesSafe(trimmed) THEN TRUE
      ELSE FALSE

----------------------------------------------------------------------------
(* Optional values: <<>> is undefined, <<v>> is the value v *)

NONE == <<>>

Some(v) == <<v>>

----------------------------------------------------------------------------
(* AgentService: paths and the action parser *)

\* The code fence of a markdown block, three backquotes in the source; the
\* backquote cannot be written in a TLA+ string and is written ~ here.
Fence == "~~~"

workspaceRoot == "/w"

\* path.isAbsolute / path.join(workspaceRoot, filePath)
resolvePath(filePath) ==
  IF StartsWith(filePath, "/") THEN filePath ELSE workspaceRoot \o "/" \o filePath

\* first position >= i that holds no word character
RECURSIVE WordRunEnd(_, _)
WordRunEnd(s, i) == IF IsWordChar(CharAt(s, i)) THEN WordRunEnd(s, i + 1) ELSE i

\* one match of /FENCE(\w+)?(?::([^\n]+))?\n([\s\S]*?)FENCE/ starting at position i
CodeBlockAt(s, i) ==
  LET k       == WordRunEnd(s, i + 3)
      nl      == IndexOf(s, "\n", k)
      hasPath == CharAt(s, k) = ":" /\ nl > k + 1
      hdrEnd  == IF hasPath THEN nl ELSE IF CharAt(s, k) = "\n" THEN k ELSE 0
      close   == IF hdrEnd = 0 THEN 0 ELSE IndexOf(s, Fence, hdrEnd + 1)
  IN  [ ok       |-> HasAt(s, i, Fence) /\ close # 0,
        language |-> SubSeq(s, i + 3, k - 1),
        filePath |-> IF hasPath THEN Some(SubSeq(s, k + 1, nl - 1)) ELSE NONE,
        content  |-> IF close = 0 THEN "" ELSE SubSeq(s, hdrEnd + 1, close - 1),
        next     |-> close + 3 ]

\* the successive matches of codeBlockPattern.exec(response) from position from
RECURSIVE CodeBlocks(_, _)
CodeBlocks(s, from) ==
  LET i == IndexOf(s, Fence, from)
  IN  IF i = 0 THEN <<>>
      ELSE LET m == CodeBlockAt(s, i)
           IN  IF m.ok THEN <<m>> \o CodeBlocks(s, m.next) ELSE CodeBlocks(s, i + 1)

\* a parser that takes a block with a path and no content for a deletion
FileActionOfEmptyDeletes(m, files) ==
  LET filePath == IF m.filePath = NONE THEN "" ELSE Trim(m.filePath[1])
      content  == Trim(m.content)
      exists   == resolvePath(filePath) \in DOMAIN files
  IN  IF filePath = "" THEN <<>>
      ELSE << [ type            |-> IF content = "" THEN "delete"
                                    ELSE IF exists THEN "edit" ELSE "create",
                path            |-> filePath,
                content         |-> content,
                originalContent |-> IF exists THEN Some(files[resolvePath(filePath)])
                                    ELSE NONE,
                status          |-> "pending",
                error           |-> NONE ] >>

\* the FileAction of one code block, <<>> when the block is not actionable
FileActionOf(m, files) ==
  LET filePath == IF m.filePath = NONE THEN "" ELSE Trim(m.filePath[1])
      content  == Trim(m.content)
      fullPath == resolvePath(filePath)
      exists   == fullPath \in DOMAIN files
  IN  IF filePath # "" /\ content # ""
      THEN << [ type            |-> IF exists THEN "edit" ELSE "create",
                path            |-> filePath,
                content         |-> content,
                originalContent |-> IF exists THEN Some(files[fullPath]) ELSE NONE,
                status          |-> "pending",
                error           |-> NONE ] >>
      ELSE <<>>

RECURSIVE FileActionsOf(_, _)
FileActionsOf(ms, files) ==
  IF ms = <<>> THEN <<>> ELSE FileActionOf(Head(ms), files) \o FileActionsOf(Tail(ms), files)

\* the matches of the two block expressions, tabulated once on ParsedResponses
BlockTable ==
  [r \in ParsedResponses |-> [code |-> CodeBlocks(r, 1)]]

parseActionsFromResponse(response, files) ==
  FileActionsOf(IF response \in ParsedResponses THEN BlockTable[response].code
                ELSE CodeBlocks(response, 1), files)

ShellLanguages == {"bash", "shell", "sh", "zsh", "terminal"}

\* one match of /FENCE(?:bash|shell|sh|zsh|terminal)\n([\s\S]*?)FENCE/ starting at position i
ShellBlockAt(s, i) ==
  LET langs  == { l \in ShellLanguages : HasAt(s, i + 3, l \o "\n") }
      hdrEnd == IF langs = {} THEN 0 ELSE i + 3 + Len(CHOOSE l \in langs : TRUE)
      close  == IF hdrEnd = 0 THEN 0 ELSE IndexOf(s, Fence, hdrEnd + 1)
  IN  [ ok      |-> HasAt(s, i, Fence) /\ close # 0,
        content |-> IF close = 0 THEN "" ELSE SubSeq(s, hdrEnd + 1, close - 1),
        next    |-> close + 3 ]

\* the successive matches of shellBlockPattern.exec(response) from position from
RECURSIVE ShellBlocks(_, _)
ShellBlocks(s, from) ==
  LET i == IndexOf(s, Fence, from)
  IN  IF i = 0 THEN <<>>
      ELSE LET m == ShellBlockAt(s, i)
           IN  IF m.ok THEN <<m>> \o ShellBlocks(s, m.next) ELSE ShellBlocks(s, i + 1)

\* the filter of parseCommandsFromResponse: keeps a line of a shell block
KeepCommandLine(cmd) ==
  LET trimmed == Trim(cmd)
  IN  trimmed # "" /\ ~StartsWith(trimmed, "#") /\ ~StartsWith(trimmed, "$")

\* command.replace(/^\$\s*/, '').trim()
CleanCommand(command) ==
  IF StartsWith(command, "$")
  THEN Trim(TrimStart(SubSeq(command, 2, Len(command))))
  ELSE Trim(command)

RECURSIVE TerminalActionsOfLines(_)
TerminalActionsOfLines(lines) ==
  IF lines = <<>> THEN <<>>
  ELSE LET cleanCmd == CleanCommand(Head(lines))
       IN  (IF cleanCmd # ""
            THEN << [ type        |-> "command",
                      command     |-> cleanCmd,
                      status      |-> "pending",
                      isDangerous |-> ~isCommandSafe(cleanCmd),
                      output      |-> NONE,
                      exitCode    |-> NONE,
                      error       |-> NONE ] >>
            ELSE <<>>) \o TerminalActionsOfLines(Tail(lines))

RECURSIVE TerminalActionsOf(_)
TerminalActionsOf(ms) ==
  IF ms = <<>> THEN <<>>
  ELSE TerminalActionsOfLines(SelectSeq(SplitLines(Trim(Head(ms).content)), KeepCommandLine))
       \o TerminalActionsOf(Tail(ms))

ShellBlockTable ==
  [r \in ParsedResponses |-> TerminalActionsOf(ShellBlocks(r, 1))]

parseCommandsFromResponse(response) ==
  IF response \in ParsedResponses THEN ShellBlockTable[response]
  ELSE TerminalActionsOf(ShellBlocks(response, 1))

----------------------------------------------------------------------------
(* AgentService: the executor *)

\* How a write to the workspace can end: written and shown; mkdirSync or
\* writeFileSync throws; the file is written and opening it in the editor throws.
FileOutcomes == {"ok", "writeFail", "openFail"}

\* What the child process of cp.exec can report: whether exec passes an error
\* object, its code (none for a process killed at the timeout), stdout, stderr.
ProcessReports ==
  { [error |-> NONE, code |-> NONE, stdout |-> "ok", stderr |-> ""],
    [error |-> Some("Command failed"), code |-> Some(1),
     stdout |-> "a.ts(1,1): error TS1: m1", stderr |-> ""],
    [error |-> Some("Command failed"), code |-> Some(1), stdout |-> "ok", stderr |-> ""],
    [error |-> Some("killed"), code |-> NONE, stdout |-> "", stderr |-> ""] }

\* files with the content of path replaced
WriteFile(files, fullPath, content) ==
  [ q \in DOMAIN files \cup {fullPath} |-> IF q = fullPath THEN content ELSE files[q] ]

\* files without path
Unlink(files, fullPath) == [ q \in DOMAIN files \ {fullPath} |-> files[q] ]

createFile(files, filePath, content, outcome) ==
  LET fullPath == resolvePath(filePath)
  IN  CASE outcome = "ok"        -> [files |-> WriteFile(files, fullPath, content),
                                     success |-> TRUE, error |-> NONE]
        [] outcome = "openFail"  -> [files |-> WriteFile(files, fullPath, content),
                                     success |-> FALSE, error |-> Some("cannot open")]
        [] outcome = "writeFail" -> [files |-> files,
                                     success |-> FALSE, error |-> Some("EACCES")]

\* editFile that reports a missing file and writes nothing
editFileOnlyExisting(files, filePath, newContent, outcome) ==
  IF resolvePath(filePath) \notin DOMAIN files
  THEN [files |-> files, success |-> FALSE, error |-> Some("ENOENT")]
  ELSE CASE outcome = "ok"        -> [files |-> WriteFile(files, resolvePath(filePath), newContent),
                                      success |-> TRUE, error |-> NONE]
         [] outcome = "openFail"  -> [files |-> WriteFile(files, resolvePath(filePath), newContent),
                                      success |-> FALSE, error |-> Some("cannot open")]
         [] outcome = "writeFail" -> [files |-> files,
                                      success |-> FALSE, error |-> Some("EACCES")]

editFile(files, filePath, newContent, outcome) ==
  LET fullPath == resolvePath(filePath)
  IN  IF fullPath \notin DOMAIN files
      THEN createFile(files, filePath, newContent, outcome)
      ELSE CASE outcome = "ok"        -> [files |-> WriteFile(files, fullPath, newContent),
                                          success |-> TRUE, error |-> NONE]
             [] outcome = "openFail"  -> [files |-> WriteFile(files, fullPath, newContent),
                                          success |-> FALSE, error |-> Some("cannot open")]
             [] outcome = "writeFail" -> [files |-> files,
                                          success |-> FALSE, error |-> Some("EACCES")]

\* deleteFile that unlinks at once
deleteFileAtOnce(files, filePath) ==
  LET fullPath == resolvePath(filePath)
  IN  [files |-> [ q \in DOMAIN files \ {fullPath} |-> files[q] ],
       success |-> TRUE, needsApproval |-> FALSE, error |-> NONE]

\* deleteFile removes nothing and asks for approval
deleteFile(files, filePath) ==
  [files |-> files, success |-> FALSE, needsApproval |-> TRUE, error |-> NONE]

\* executeDelete: unlinkSync throws when the file is missing
executeDelete(files, filePath) ==
  LET fullPath == resolvePath(filePath)
  IN  IF fullPath \in DOMAIN files
      THEN [files |-> Unlink(files, fullPath), success |-> TRUE, error |-> NONE]
      ELSE [files |-> files, success |-> FALSE, error |-> Some("ENOENT")]

\* executeCommandWithOutput: the result built from what the child process reports
executeCommandWithOutput(report) ==
  LET exitCode == IF report.error # NONE /\ report.code # NONE /\ report.code[1] # 0
                  THEN report.code[1] ELSE 0
  IN  [ success  |-> exitCode = 0,
        output   |-> report.stdout \o (IF report.stderr # "" THEN "\n" \o report.stderr ELSE ""),
        exitCode |-> exitCode,
        error    |-> report.error ]

\* the file loop of processAIResponse from action i on; fo[i] is how the write of
\* action i ends
RECURSIVE ExecFileActions(_, _, _, _)
RECURSIVE ExecFileActionsStops(_, _, _, _)

\* a file loop that is left at the first write that fails
ExecFileActionsStops(actions, files, fo, i) ==
  IF i > Len(actions)
  THEN [files |-> files, actions |-> actions, pending |-> <<>>, log |-> <<>>]
  ELSE LET action == actions[i]
           r == CASE action.type = "create" -> createFile(files, action.path, action.content, fo[i])
                  [] action.type = "edit"   -> editFile(files, action.path, action.content, fo[i])
                  [] OTHER                  -> [files |-> files, success |-> TRUE, error |-> NONE]
           done == IF action.type \in {"create", "edit"}
                   THEN [action EXCEPT !.status = IF r.success THEN "executed" ELSE "failed",
                                       !.error = r.error]
                   ELSE action
           rest == IF r.success
                   THEN ExecFileActionsStops([actions EXCEPT ![i] = done], r.files, fo, i + 1)
                   ELSE [files |-> r.files, actions |-> [actions EXCEPT ![i] = done],
                         pending |-> <<>>, log |-> <<>>]
       IN  [rest EXCEPT !.pending = (IF action.type = "delete" THEN <<action>> ELSE <<>>) \o @,
                        !.log = (IF action.type \in {"create", "edit"}
                                 THEN <<[kind |-> "file", index |-> i]>> ELSE <<>>) \o @]

\* (log lists the writes in the order the loop makes them)
ExecFileActions(actions, files, fo, i) ==
  IF i > Len(actions)
  THEN [files |-> files, actions |-> actions, pending |-> <<>>, log |-> <<>>]
  ELSE LET action == actions[i]
           r == CASE action.type = "create" -> createFile(files, action.path, action.content, fo[i])
                  [] action.type = "edit"   -> editFile(files, action.path, action.content, fo[i])
                  [] OTHER                  -> [files |-> files, success |-> FALSE, error |-> NONE]
           done == IF action.type \in {"create", "edit"}
                   THEN [action EXCEPT !.status = IF r.success THEN "executed" ELSE "failed",
                                       !.error = r.error]
                   ELSE action
           rest == ExecFileActions([actions EXCEPT ![i] = done], r.files, fo, i + 1)
       IN  [rest EXCEPT !.pending = (IF action.type = "delete" THEN <<action>> ELSE <<>>) \o @,
                        !.log = (IF action.type \in {"create", "edit"}
                                 THEN <<[kind |-> "file", index |-> i]>> ELSE <<>>) \o @]

\* the command loop without its isDangerous test
RunsAlways(action) == TRUE

\* if (!action.isDangerous): the command runs without approval
RunsUnattended(action) == ~action.isDangerous

\* the command loop of processAIResponse from action i on; eo[i] is what the
\* process of action i reports
RECURSIVE ExecTerminalActions(_, _, _)
ExecTerminalActions(actions, eo, i) ==
  IF i > Len(actions) THEN [actions |-> actions, pending |-> <<>>, ran |-> {}, log |-> <<>>]
  ELSE LET action == actions[i]
           r    == IF RunsUnattended(action) THEN executeCommandWithOutput(eo[i])
                   ELSE [success |-> FALSE, output |-> "", exitCode |-> 0, error |-> NONE]
           done == IF RunsUnattended(action)
                   THEN [action EXCEPT !.status = IF r.success THEN "executed" ELSE "failed",
                                       !.error = r.error,
                                       !.output = Some(r.output),
                                       !.exitCode = Some(r.exitCode)]
                   ELSE action
           rest == ExecTerminalActions([actions EXCEPT ![i] = done], eo, i + 1)
       IN  [rest EXCEPT !.pending = (IF RunsUnattended(action) THEN <<>> ELSE <<action>>) \o @,
                        !.ran = (IF RunsUnattended(action) THEN {action.command} ELSE {}) \cup @,
                        !.log = (IF RunsUnattended(action)
                                 THEN <<[kind |-> "command", index |-> i]>> ELSE <<>>) \o @]

\* AgentService.processAIResponse: the returned record, the workspace after it
\* and the commands it ran
processAIResponse(response, files, fo, eo) ==
  LET fileActions     == parseActionsFromResponse(response, files)
      terminalActions == parseCommandsFromResponse(response)
      f == ExecFileActions(fileActions, files, fo, 1)
      t == ExecTerminalActions(terminalActions, eo, 1)
  IN  [ files            |-> f.files,
        fileActions      |-> f.actions,
        terminalActions  |-> t.actions,
        pendingApprovals |-> f.pending \o t.pending,
        ran              |-> t.ran,
        log              |-> f.log \o t.log ]

----------------------------------------------------------------------------
(* ErrorDetector.hasErrors *)

UpperCase == <<"A","B","C","D","E","F","G","H","I","J","K","L","M",
               "N","O","P","Q","R","S","T","U","V","W","X","Y","Z">>

LowerCase == <<"a","b","c","d","e","f","g","h","i","j","k","l","m",
               "n","o","p","q","r","s","t","u","v","w","x","y","z">>

LowerChar(c) ==
  IF \E i \in DOMAIN UpperCase : UpperCase[i] = c
  THEN LowerCase[CHOOSE i \in DOMAIN UpperCase : UpperCase[i] = c]
  ELSE c

\* String.prototype.toLowerCase, also the folding of a pattern with the i flag
RECURSIVE ToLower(_)
ToLower(s) == IF s = "" THEN "" ELSE LowerChar(Head(s)) \o ToLower(Tail(s))

\* RegExp.prototype.test for a pattern without ^
TestAnywhere(p, s) == Ends(p, s, 1..(Len(s) + 1)) # {}

\* the indicators written without the i flag
errorIndicators ==
  { <<Lit("ERROR")>>, <<Lit("FAIL"), Alt({ <<Lit(c)>> : c \in {" ", "\t", "\n", "\r"} })>>,
    <<Lit("SyntaxError")>>, <<Lit("TypeError")>>, <<Lit("ReferenceError")>>,
    <<Lit("Cannot find module")>>, <<Lit("Module not found")>>, <<Lit("npm ERR!")>>,
    <<Lit("ENOENT")>>, <<Lit("Invariant Violation")>>,
    <<Lit("Unhandled"), AnyChars, Lit("Error")>>, <<Lit("[!]")>>,
    \* the Jest failure bullet U+25CF, written by its code point
    <<Lit("<U+25CF>")>> }

\* the indicators written with the i flag, in lower case
errorIndicatorsIgnoreCase ==
  { <<WB, Lit("error"), WB>>, <<WB, Lit("failed"), WB>>, <<WB, Lit("failure"), WB>>,
    <<Lit("build failed")>> }

ScanIndicators(output) ==
  \/ \E p \in errorIndicators : TestAnywhere(p, output)
  \/ \E p \in errorIndicatorsIgnoreCase : TestAnywhere(p, ToLower(output))

\* the outputs the process reports give, with the scan tabulated once on them
ReportOutputs == { executeCommandWithOutput(r).output : r \in ProcessReports }

IndicatorTable == [o \in ReportOutputs |-> ScanIndicators(o)]

hasErrors(output) ==
  IF output \in ReportOutputs THEN IndicatorTable[output] ELSE ScanIndicators(output)

----------------------------------------------------------------------------
(* ErrorDetector.parseErrors *)

Digits == <<"0", "1", "2", "3", "4", "5", "6", "7", "8", "9">>

IsDigit(c) == \E d \in DOMAIN Digits : Digits[d] = c

\* s is \d+
IsNumber(s) == s # "" /\ \A i \in 1..Len(s) : IsDigit(SubSeq(s, i, i))

\* parseInt of a digit string
RECURSIVE parseInt(_)
parseInt(s) ==
  IF s = "" THEN 0
  ELSE 10 * parseInt(SubSeq(s, 1, Len(s) - 1))
       + ((CHOOSE d \in DOMAIN Digits : Digits[d] = SubSeq(s, Len(s), Len(s))) - 1)

\* s is \s*
IsBlank(s) == \A i \in 1..Len(s) : IsSpace(SubSeq(s, i, i))

\* Array.prototype.sort with the comparator Key(a) - Key(b): a stable sort
SortBy(seq, Key(_)) ==
  LET Insert(sorted, x) ==
        LET j == Cardinality({ k \in DOMAIN sorted : Key(sorted[k]) <= Key(x) })
        IN  SubSeq(sorted, 1, j) \o <<x>> \o SubSeq(sorted, j + 1, Len(sorted))
      ins[n \in 0..Len(seq)] == IF n = 0 THEN <<>> ELSE Insert(ins[n - 1], seq[n])
  IN  ins[Len(seq)]

\* The first TypeScript expression on a one-line output,
\*   /([^\s()]+\.tsx?)\((\d+),(\d+)\):\s*error\s+(TS\d+):\s*(.+)/
\* the match that starts the line: <<>> or the extracted fields
TypeScriptMatch(output) ==
  LET open  == IndexOf(output, "(", 1)
      comma == IF open = 0 THEN 0 ELSE IndexOf(output, ",", open)
      close == IF comma = 0 THEN 0 ELSE IndexOf(output, "):", comma)
      err   == IF close = 0 THEN 0 ELSE IndexOf(output, "error", close)
      ts    == IF err = 0 THEN 0 ELSE IndexOf(output, "TS", err)
      colon == IF ts = 0 THEN 0 ELSE IndexOf(output, ":", ts)
      file  == SubSeq(output, 1, open - 1)
      line  == SubSeq(output, open + 1, comma - 1)
      col   == SubSeq(output, comma + 1, close - 1)
      gap1  == SubSeq(output, close + 2, err - 1)
      gap2  == SubSeq(output, err + 5, ts - 1)
      code  == SubSeq(output, ts + 2, colon - 1)
      text  == TrimStart(SubSeq(output, colon + 1, Len(output)))
  IN  IF /\ colon # 0
         /\ file # ""
         /\ \A i \in 1..Len(file) : ~IsSpace(SubSeq(file, i, i)) /\ SubSeq(file, i, i) # ")"
         /\ \/ HasAt(file, Len(file) - 2, ".ts")
            \/ HasAt(file, Len(file) - 3, ".tsx")
         /\ IsNumber(line) /\ IsNumber(col) /\ IsNumber(code)
         /\ IsBlank(gap1) /\ gap2 # "" /\ IsBlank(gap2)
         /\ text # "" /\ IndexOf(output, "\n", 1) = 0
      THEN << [ type |-> "typescript", message |-> text,
                file |-> Some(file), line |-> Some(parseInt(line)) ] >>
      ELSE <<>>

\* The first yarn expression on a one-line output, /error\s+(.+)/: the first
\* match, <<>> or the extracted fields (no file, no line)
YarnMatch(output) ==
  LET err  == IndexOf(output, "error", 1)
      rest == SubSeq(output, err + 5, Len(output))
      text == TrimStart(rest)
  IN  IF err # 0 /\ rest # text /\ text # "" /\ IndexOf(output, "\n", 1) = 0
      THEN << [ type |-> "yarn", message |-> text, file |-> NONE, line |-> NONE ] >>
      ELSE <<>>

\* the file of a parsed error made absolute when it exists in the workspace
ResolveErrorFile(error, files) ==
  IF error.file # NONE /\ ~StartsWith(error.file[1], "/")
     /\ (workspaceRoot \o "/" \o error.file[1]) \in DOMAIN files
  THEN [error EXCEPT !.file = Some(workspaceRoot \o "/" \o error.file[1])]
  ELSE error

\* a.line || 0
LineOrZero(error) == IF error.line = NONE THEN 0 ELSE error.line[1]

\* The third yarn expression on a line, /Couldn't find package/: the first
\* match; the extractor's message is match[0]
YarnPackageMatch(output) ==
  IF IndexOf(output, "Couldn't find package", 1) # 0
  THEN << [ type |-> "yarn", message |-> "Couldn't find package",
            file |-> NONE, line |-> NONE ] >>
  ELSE <<>>

\* the matches of one expression on the lines of the output, in text order
RECURSIVE MatchesOnLines(_, _)
MatchesOnLines(which, lines) ==
  IF lines = <<>> THEN <<>>
  ELSE (CASE which = "typescript" -> TypeScriptMatch(Head(lines))
          [] which = "yarn"       -> YarnMatch(Head(lines))
          [] OTHER                -> YarnPackageMatch(Head(lines)))
       \o MatchesOnLines(which, Tail(lines))

\* the two loops of parseErrors over ERROR_PATTERNS and the matches of each
\* expression: of the expressions of the table the three above are those that
\* match the outputs of ProcessReports and the texts of DetectTexts, each at
\* most once on a line and never across a line end
ScanPatterns(output) ==
  LET lines == SplitLines(output)
  IN  MatchesOnLines("typescript", lines) \o MatchesOnLines("yarn", lines)
      \o MatchesOnLines("package", lines)

\* if (seen.has(errorKey)) continue; seen.add(errorKey): the key is made of the
\* extracted fields
RECURSIVE SkipSeen(_, _)
SkipSeen(found, seen) ==
  IF found = <<>> THEN <<>>
  ELSE LET key == Head(found).message \o "-"
                  \o (IF Head(found).file = NONE THEN "undefined" ELSE Head(found).file[1])
                  \o "-"
                  \o (IF Head(found).line = NONE THEN "undefined"
                      ELSE ToString(Head(found).line[1]))
       IN  IF key \in seen THEN SkipSeen(Tail(found), seen)
           ELSE <<Head(found)>> \o SkipSeen(Tail(found), seen \cup {key})

\* messages and relative files of compiler errors, with and without a "-"
KeyMessages == {"a", "a-b"}

KeyFiles == {"c.ts", "b-c.ts"}

KeyLines == {1, 2}

\* the errors made of them, as the TypeScript extractor yields them
KeyedErrors ==
  { [type |-> "typescript", message |-> m, file |-> Some(f), line |-> Some(l)] :
      m \in KeyMessages, f \in KeyFiles, l \in KeyLines }

\* the compiler's line for an error
CompilerLine(e) ==
  e.file[1] \o "(" \o ToString(e.line[1]) \o ",1): error TS1: " \o e.message

\* the compiler outputs of two lines
KeyedOutputs ==
  { CompilerLine(a) \o "\n" \o CompilerLine(b) : a \in KeyedErrors, b \in KeyedErrors }

\* the outputs that are scanned more than once
ScannedOutputs == ReportOutputs \cup KeyedOutputs

\* the scan tabulated once on these outputs
PatternTable == [o \in ScannedOutputs |-> ScanPatterns(o)]

\* the scan of an output, read from the table where the output is tabulated
ScanOutput(output) ==
  IF output \in ScannedOutputs THEN PatternTable[output] ELSE ScanPatterns(output)

\* the files of the parsed errors resolved against the workspace
ResolveErrorFiles(errors, files) ==
  [ i \in DOMAIN errors |-> ResolveErrorFile(errors[i], files) ]

\* the errors not seen before, their files resolved, sorted by line (all have
\* severity error)
parseErrors(output, files) ==
  SortBy(ResolveErrorFiles(SkipSeen(ScanOutput(output), {}), files), LineOrZero)

----------------------------------------------------------------------------
(* AgentIntegration: errors, identities and the attempt history *)

\* prevAttempts >= 2
Ceiling == 2

\* an interpolated optional text, and an interpolated optional number
ShownText(v) == IF v = NONE THEN "undefined" ELSE v[1]

ShownNumber(v) == IF v = NONE THEN "undefined" ELSE ToString(v[1])

\* the identity of an error: message-file-line
errorKey(e) == e.message \o "-" \o ShownText(e.file) \o "-" \o ShownNumber(e.line)

Keys(errors) == { errorKey(errors[i]) : i \in DOMAIN errors }

\* this.fixHistory.get(errorKey) || 0
HistoryGet(history, key) == IF key \in DOMAIN history THEN history[key] ELSE 0

\* this.fixHistory.set(errorKey, n)
HistorySet(history, key, n) ==
  [ q \in DOMAIN history \cup {key} |-> IF q = key THEN n ELSE history[q] ]

EmptyHistory == [ q \in {} |-> 0 ]

\* the host's diagnostics of the file /w/a.ts (severity Error): message, start
\* line (0-based) and source
uriPath == "/w/a.ts"

Diagnostics ==
  { [message |-> "m1", startLine |-> 0, source |-> "ts"],
    [message |-> "m2", startLine |-> 1, source |-> "eslint"],
    [message |-> "m3", startLine |-> 2, source |-> ""] }

\* DiagnosticsService.inferErrorType on the sources and messages of Diagnostics
\* (no message holds one of the keywords the later rules look for)
inferErrorType(diagnostic) ==
  IF diagnostic.source = "ts" THEN "typescript"
  ELSE IF diagnostic.source = "eslint" THEN "eslint"
  ELSE "unknown"

\* DiagnosticsService.diagnosticToError: the fields the fix engine reads
diagnosticToError(diagnostic) ==
  [ type    |-> inferErrorType(diagnostic),
    message |-> diagnostic.message,
    file    |-> Some(uriPath),
    line    |-> Some(diagnostic.startLine + 1) ]

\* AgentIntegration.diagnosticToError
integrationDiagnosticToError(diagnostic) ==
  [ type    |-> "unknown",
    message |-> diagnostic.message,
    file    |-> Some(uriPath),
    line    |-> Some(diagnostic.startLine + 1) ]

\* DiagnosticsService.getFileDiagnostics(uri)
getFileDiagnostics(diagnostics) ==
  [ i \in DOMAIN diagnostics |-> diagnosticToError(diagnostics[i]) ]

\* a second file of the workspace and the errors the host reports for it
otherPath == "/w/b.ts"

OtherFileErrors ==
  << [type |-> "typescript", message |-> "m4", file |-> Some(otherPath), line |-> Some(1)] >>

\* a file of the build output and the errors the host reports for it
distPath == "/w/dist/a.js"

IgnoredFileErrors ==
  << [type |-> "unknown", message |-> "m5", file |-> Some(distPath), line |-> Some(1)] >>

\* diagnosticsService.getFileDiagnostics(diagError.uri) for the file of an error
HostDiagnostics(file, diagnostics) ==
  IF file = Some(otherPath) THEN OtherFileErrors
  ELSE IF file = Some(distPath) THEN IgnoredFileErrors
  ELSE getFileDiagnostics(diagnostics)

\* config.ignoredFiles
ignoredFiles == <<"node_modules", ".git", "dist", "build", ".next">>

\* filePath.includes(ignored) for some ignored
shouldIgnoreFile(filePath) ==
  \E i \in DOMAIN ignoredFiles : IndexOf(filePath, ignoredFiles[i], 1) # 0

\* a priority table in which the generic lint kind ranks with eslint
getFixPriorityWithLint(error) ==
  CASE error.type = "syntax"     -> 1
    [] error.type = "typescript" -> 2
    [] error.type = "module"     -> 3
    [] error.type \in {"eslint", "lint"} -> 4
    [] error.type = "runtime"    -> 5
    [] error.type = "build"      -> 6
    [] OTHER                     -> 10

\* ErrorDetector.getFixPriority
getFixPriority(error) ==
  CASE error.type = "syntax"     -> 1
    [] error.type = "typescript" -> 2
    [] error.type = "module"     -> 3
    [] error.type = "eslint"     -> 4
    [] error.type = "runtime"    -> 5
    [] error.type = "build"      -> 6
    [] OTHER                     -> 10

\* the AutoFixResult both fix loops start from
NewResult(errors) ==
  [ success         |-> FALSE,
    errorsFixed     |-> 0,
    errorsFailed    |-> 0,
    attempts        |-> 0,
    fixedErrors     |-> <<>>,
    remainingErrors |-> errors ]

----------------------------------------------------------------------------
(* AgentIntegration.autoFixDiagnostics: the pieces of one loop iteration *)

\* the loop condition without the bound on the attempts
LoopContinuesWhileErrors(result, maxRetries) ==
  Len(result.remainingErrors) > 0

\* the loop condition
LoopContinues(result, maxRetries) ==
  result.attempts < maxRetries /\ Len(result.remainingErrors) > 0

\* the iteration head with > in place of >=
IterationHeadOffByOne(result, history) ==
  LET errorToFix   == Head(result.remainingErrors)
      key          == errorKey(errorToFix)
      prevAttempts == HistoryGet(history, key)
      counted      == [result EXCEPT !.attempts = @ + 1]
  IN  IF prevAttempts > Ceiling
      THEN [ skip |-> TRUE, errorToFix |-> errorToFix, history |-> history,
             result |-> [counted EXCEPT !.remainingErrors = Tail(@),
                                        !.errorsFailed = @ + 1] ]
      ELSE [ skip |-> FALSE, errorToFix |-> errorToFix,
             history |-> HistorySet(history, key, prevAttempts + 1),
             result |-> counted ]

\* the iteration head that counts the attempt before it looks at the ceiling
IterationHeadCountsFirst(result, history) ==
  LET errorToFix   == Head(result.remainingErrors)
      key          == errorKey(errorToFix)
      prevAttempts == HistoryGet(history, key)
      counted      == [result EXCEPT !.attempts = @ + 1]
  IN  IF prevAttempts >= Ceiling
      THEN [ skip |-> TRUE, errorToFix |-> errorToFix,
             history |-> HistorySet(history, key, prevAttempts + 1),
             result |-> [counted EXCEPT !.remainingErrors = Tail(@),
                                        !.errorsFailed = @ + 1] ]
      ELSE [ skip |-> FALSE, errorToFix |-> errorToFix,
             history |-> HistorySet(history, key, prevAttempts + 1),
             result |-> counted ]

\* the iteration head that forgets an error it gives up
IterationHeadForgets(result, history) ==
  LET errorToFix   == Head(result.remainingErrors)
      key          == errorKey(errorToFix)
      prevAttempts == HistoryGet(history, key)
      counted      == [result EXCEPT !.attempts = @ + 1]
  IN  IF prevAttempts >= Ceiling
      THEN [ skip |-> TRUE, errorToFix |-> errorToFix,
             history |-> [ q \in DOMAIN history \ {key} |-> history[q] ],
             result |-> [counted EXCEPT !.remainingErrors = Tail(@),
                                        !.errorsFailed = @ + 1] ]
      ELSE [ skip |-> FALSE, errorToFix |-> errorToFix,
             history |-> HistorySet(history, key, prevAttempts + 1),
             result |-> counted ]

\* from result.attempts++ to this.fixHistory.set: the error selected, whether it
\* is skipped, and the history and result after it
IterationHead(result, history) ==
  LET errorToFix   == Head(result.remainingErrors)
      key          == errorKey(errorToFix)
      prevAttempts == HistoryGet(history, key)
      counted      == [result EXCEPT !.attempts = @ + 1]
  IN  IF prevAttempts >= Ceiling
      THEN [ skip |-> TRUE, errorToFix |-> errorToFix, history |-> history,
             result |-> [counted EXCEPT !.remainingErrors = Tail(@),
                                        !.errorsFailed = @ + 1] ]
      ELSE [ skip |-> FALSE, errorToFix |-> errorToFix,
             history |-> HistorySet(history, key, prevAttempts + 1),
             result |-> counted ]

\* the check of the refreshed diagnostics after a fix was applied
VerifyDiagnostics(result, errorToFix, currentDiagnostics) ==
  LET currentKeys == Keys(currentDiagnostics)
      kept        == SelectSeq(result.remainingErrors,
                               LAMBDA e : errorKey(e) \in currentKeys)
      fixedCount  == Len(result.remainingErrors) - Len(kept)
  IN  [result EXCEPT !.remainingErrors = kept,
                     !.errorsFixed = @ + fixedCount,
                     !.fixedErrors = IF fixedCount > 0 THEN Append(@, errorToFix) ELSE @]

\* a catch that leaves the failure uncounted
AttemptThrewUncounted(result) == result

\* catch (error): the attempt failed
AttemptThrew(result) == [result EXCEPT !.errorsFailed = @ + 1]

\* the return without the last assignment to success
FinishedAsItIs(result) == result

\* result.success = result.remainingErrors.length === 0
Finished(result) == [result EXCEPT !.success = Len(result.remainingErrors) = 0]

----------------------------------------------------------------------------
(* AgentIntegration.smartAutoFix: grouping and the pieces of one iteration *)

\* error.file || '_global_'
fileKey(error) ==
  IF error.file = NONE \/ error.file = Some("") THEN "_global_" ELSE error.file[1]

\* the keys of errorsByFile in insertion order
RECURSIVE GroupOrder(_, _)
GroupOrder(errors, seen) ==
  IF errors = <<>> THEN <<>>
  ELSE IF fileKey(Head(errors)) \in seen THEN GroupOrder(Tail(errors), seen)
  ELSE <<fileKey(Head(errors))>>
       \o GroupOrder(Tail(errors), seen \cup {fileKey(Head(errors))})

\* the values of errorsByFile in insertion order, built from the errors sorted
\* by priority
errorsByFile(errors) ==
  LET sortedErrors == SortBy(errors, getFixPriority)
      order        == GroupOrder(sortedErrors, {})
  IN  [ g \in DOMAIN order |->
          SelectSeq(sortedErrors, LAMBDA e : fileKey(e) = order[g]) ]

\* the condition of the while loop of one group
SmartLoopContinues(attempt, remaining, maxRetries) ==
  attempt < maxRetries /\ Len(remaining) > 0

\* the iteration head of a group without the check of the history
SmartIterationHeadUnchecked(result, remaining, history) ==
  LET errorToFix   == Head(remaining)
      key          == errorKey(errorToFix)
      prevAttempts == HistoryGet(history, key)
  IN  [ skip |-> FALSE, errorToFix |-> errorToFix,
        history |-> HistorySet(history, key, prevAttempts + 1),
        remaining |-> remaining,
        result |-> [result EXCEPT !.attempts = @ + 1] ]

\* from attempt++ to this.fixHistory.set in the loop of one group
SmartIterationHead(result, remaining, history) ==
  LET errorToFix   == Head(remaining)
      key          == errorKey(errorToFix)
      prevAttempts == HistoryGet(history, key)
      counted      == [result EXCEPT !.attempts = @ + 1]
  IN  IF prevAttempts >= Ceiling
      THEN [ skip |-> TRUE, errorToFix |-> errorToFix, history |-> history,
             remaining |-> Tail(remaining),
             result |-> [counted EXCEPT !.errorsFailed = @ + 1] ]
      ELSE [ skip |-> FALSE, errorToFix |-> errorToFix,
             history |-> HistorySet(history, key, prevAttempts + 1),
             remaining |-> remaining,
             result |-> counted ]

\* the check of the output of the command run again after a fix was applied
SmartVerify(result, remaining, output, files) ==
  IF ~hasErrors(output)
  THEN [ break |-> TRUE, remaining |-> <<>>,
         result |-> [result EXCEPT !.success = TRUE,
                                   !.errorsFixed = @ + Len(remaining),
                                   !.fixedErrors = @ \o remaining] ]
  ELSE LET newKeys == Keys(parseErrors(output, files))
           kept    == SelectSeq(remaining, LAMBDA e : errorKey(e) \in newKeys)
       IN  [ break |-> FALSE, remaining |-> kept,
             result |-> [result EXCEPT !.errorsFixed = @ + (Len(remaining) - Len(kept))] ]

\* result.remainingErrors = remaining, at the end of each group
GroupDone(result, remaining) == [result EXCEPT !.remainingErrors = remaining]

----------------------------------------------------------------------------
(* AgentService.runCommand and the approval path of the chat panel *)

\* executeCommand: sends the command to the terminal; creating or showing the
\* terminal may throw (outcome "fail"; the outcome is not consulted when the
\* command is not sent)
executeCommand(command, outcome) ==
  IF outcome = "ok"
  THEN [sent |-> {command}, success |-> TRUE, error |-> NONE]
  ELSE [sent |-> {}, success |-> FALSE, error |-> Some("terminal")]

runCommand(command, outcome) ==
  LET isSafe == isCommandSafe(command)
      result == executeCommand(command, outcome)
  IN  IF ~isSafe
      THEN [sent |-> {}, success |-> FALSE, needsApproval |-> TRUE, error |-> NONE]
      ELSE [sent |-> result.sent, success |-> result.success, needsApproval |-> FALSE,
            error |-> result.error]

\* handleApproval: what an approval message does to the workspace and which
\* command it runs
handleApproval(files, action, approved) ==
  IF ~approved THEN [files |-> files, ran |-> {}]
  ELSE IF action.type = "delete" /\ action.path # ""
       THEN [files |-> executeDelete(files, action.path).files, ran |-> {}]
       ELSE IF action.type = "command" /\ action.command # ""
            THEN [files |-> files, ran |-> {action.command}]
            ELSE [files |-> files, ran |-> {}]

----------------------------------------------------------------------------
(* State *)

VARIABLES
  files,        \* the workspace: full path -> content
  ret,          \* the value returned by the last AgentService call
  execLog,      \* commands run in a child process: [command, via]
  termLog,      \* commands sent to the terminal
  cards,        \* approval cards shown by the webview
  op,           \* the operation of the last step and its arguments
  fixHistory,   \* AgentIntegration.fixHistory: error key -> attempts
  runs,         \* the calls of autoFixDiagnostics / smartAutoFix in progress
  diag,         \* the host's current diagnostics of the file, in listed order
  modelCalls,   \* per error key: model invocations since the last history reset
  maxAutoFixRetries, \* config.maxAutoFixRetries
  started,      \* the number of fix calls and history resets made so far
  isFixing,     \* AgentIntegration.isFixing
  fixQueue,     \* AgentIntegration.fixQueue
  autoFixOnSave,      \* DiagnosticsService.config.autoFixOnSave
  saveDebounceTimers, \* DiagnosticsService.saveDebounceTimers: path -> timer
  pendingTimers,      \* the host's timers set and neither cleared nor fired
  saves,        \* the number of save events so far (the next timer's handle)
  lastDiagnostics,    \* DiagnosticsService.lastDiagnostics: path -> errors
  chat          \* ChatViewProvider: the message being answered

agentVars == <<files, ret, execLog, termLog, cards>>

fixVars == <<fixHistory, runs, diag, modelCalls, maxAutoFixRetries, started>>

queueVars == <<isFixing, fixQueue>>

saveVars == <<autoFixOnSave, saveDebounceTimers, pendingTimers, saves, lastDiagnostics>>

serviceVars == <<isFixing, fixQueue, autoFixOnSave, saveDebounceTimers,
                 pendingTimers, saves, lastDiagnostics, chat>>

vars == <<files, ret, execLog, termLog, cards, op,
          fixHistory, runs, diag, modelCalls, maxAutoFixRetries, started,
          isFixing, fixQueue, autoFixOnSave, saveDebounceTimers,
          pendingTimers, saves, lastDiagnostics, chat>>

----------------------------------------------------------------------------
(* Inputs of the agent operations *)

\* workspaces the session can start from
InitialWorkspaces ==
  { [q \in {} |-> ""], [q \in {"/w/a.ts"} |-> "old"] }

\* The payload of an approveAction message is untyped (action: any): besides the
\* cards shown, a delete request for a path.
DeleteRequests == { [type |-> "delete", path |-> q] : q \in {"a.ts", "b.ts"} }

NoRet == [fn |-> "none"]

----------------------------------------------------------------------------
(* Agent operations *)

\* at most MaxSent commands are sent to the terminal in a session
MaxSent == 1

\* AgentService.runCommand(command)
RunCommand ==
  \E command \in CommandTexts, outcome \in {"ok", "fail"} :
    \E r \in { runCommand(command, outcome) } :
        /\ r.needsApproval => outcome = "ok"
        /\ Cardinality(termLog \cup r.sent) <= MaxSent
        /\ termLog' = termLog \cup r.sent
        /\ ret' = [fn |-> "runCommand", success |-> r.success,
                   needsApproval |-> r.needsApproval, error |-> r.error]
        /\ op' = [name |-> "runCommand", command |-> command]
        /\ UNCHANGED <<files, execLog, cards>>
        /\ UNCHANGED fixVars
        /\ UNCHANGED serviceVars

\* AgentService.deleteFile(path)
DeleteFile ==
  \E filePath \in {"a.ts", "b.ts"} :
    \E r \in { deleteFile(files, filePath) } :
        /\ files' = r.files
        /\ ret' = [fn |-> "deleteFile", success |-> r.success,
                   needsApproval |-> r.needsApproval, error |-> r.error]
        /\ op' = [name |-> "deleteFile", path |-> filePath]
        /\ UNCHANGED <<execLog, termLog, cards>>
        /\ UNCHANGED fixVars
        /\ UNCHANGED serviceVars

\* AgentIntegration.processAIResponse(aiResponse) for a response none of whose
\* command outputs shows errors: AgentService.processAIResponse, then the
\* pending approvals go to the webview, which replaces its cards by them
ChatProcessAIResponse ==
  \E response \in Responses :
    \E fo \in [1..Len(parseActionsFromResponse(response, files)) -> FileOutcomes],
       reports \in [{ i \in DOMAIN parseCommandsFromResponse(response) :
                         RunsUnattended(parseCommandsFromResponse(response)[i]) }
                     -> ProcessReports] :
      \E r \in { processAIResponse(response, files, fo, reports) } :
          /\ \A i \in DOMAIN r.terminalActions :
               IF r.terminalActions[i].output \in {NONE, Some("")} THEN TRUE
               ELSE ~hasErrors(r.terminalActions[i].output[1])
          /\ files' = r.files
          /\ execLog' = execLog \cup { [command |-> c, via |-> "auto"] : c \in r.ran }
          /\ ret' = [fn |-> "processAIResponse", fileActions |-> r.fileActions,
                     terminalActions |-> r.terminalActions,
                     pendingApprovals |-> r.pendingApprovals]
          /\ cards' = IF r.pendingApprovals # <<>> THEN Range(r.pendingApprovals) ELSE cards
          /\ op' = [name |-> "processAIResponse", response |-> response, ran |-> r.ran]
          /\ UNCHANGED termLog
          /\ UNCHANGED fixVars
          /\ UNCHANGED serviceVars

\* the webview's approveAction message: handleApproval(action, true); the card
\* is removed by the click
ApproveAction ==
  \E action \in cards \cup DeleteRequests :
    \E r \in { handleApproval(files, action, TRUE) } :
        /\ files' = r.files
        /\ execLog' = execLog \cup { [command |-> c, via |-> "approved"] : c \in r.ran }
        /\ cards' = cards \ {action}
        /\ op' = [name |-> "approveAction", action |-> action,
                  removed |-> DOMAIN files \ DOMAIN r.files]
        /\ ret' = [fn |-> "handleApproval"]
        /\ UNCHANGED termLog
        /\ UNCHANGED fixVars
        /\ UNCHANGED serviceVars

\* the webview's rejectAction message: the card is removed, nothing runs
RejectAction ==
  \E action \in cards :
    /\ cards' = cards \ {action}
    /\ op' = [name |-> "rejectAction", action |-> action]
    /\ ret' = [fn |-> "none"]
    /\ UNCHANGED <<files, execLog, termLog>>
    /\ UNCHANGED fixVars
    /\ UNCHANGED serviceVars

\* the queue, the save timers and the chat panel at rest
ChatIdle == [pc |-> "idle", aborted |-> FALSE, chunks |-> <<>>, assistantContent |-> ""]

InitServiceIdle ==
  /\ isFixing = FALSE
  /\ fixQueue = <<>>
  /\ autoFixOnSave = TRUE
  /\ saveDebounceTimers = [q \in {} |-> 0]
  /\ pendingTimers = {}
  /\ saves = 0
  /\ lastDiagnostics = [q \in {} |-> <<>>]
  /\ chat = ChatIdle

InitFixIdle ==
  /\ InitServiceIdle
  /\ fixHistory = [k \in {} |-> 0]
  /\ runs = <<>>
  /\ diag = <<>>
  /\ modelCalls = [k \in {} |-> 0]
  /\ maxAutoFixRetries = 3
  /\ started = 0

InitAgent ==
  /\ files \in InitialWorkspaces
  /\ ret = NoRet
  /\ execLog = {}
  /\ termLog = {}
  /\ cards = {}
  /\ op = [name |-> "init"]
  /\ InitFixIdle

\* AgentService.processAIResponse(response) called on its own: every outcome
\* of every write and of every process
ProcessAIResponse ==
  \E response \in BatchResponses :
    \E fo \in [1..Len(parseActionsFromResponse(response, files)) -> FileOutcomes],
       reports \in [{ i \in DOMAIN parseCommandsFromResponse(response) :
                         RunsUnattended(parseCommandsFromResponse(response)[i]) }
                     -> ProcessReports] :
      \E r \in { processAIResponse(response, files, fo, reports) } :
          /\ files' = r.files
          /\ execLog' = execLog \cup { [command |-> c, via |-> "auto"] : c \in r.ran }
          /\ ret' = [fn |-> "agentService.processAIResponse",
                     fileActions |-> r.fileActions,
                     terminalActions |-> r.terminalActions,
                     pendingApprovals |-> r.pendingApprovals,
                     log |-> r.log]
          /\ op' = [name |-> "agentService.processAIResponse", response |-> response,
                    fo |-> fo, commands |-> parseCommandsFromResponse(response)]
          /\ UNCHANGED <<termLog, cards>>
          /\ UNCHANGED fixVars
          /\ UNCHANGED serviceVars

\* AgentService.parseActionsFromResponse(response) called on its own
ParseActionsFromResponse ==
  /\ \E response \in ParseResponses :
       op' = [name |-> "parseActionsFromResponse", response |-> response,
              actions |-> parseActionsFromResponse(response, files)]
  /\ UNCHANGED agentVars
  /\ UNCHANGED fixVars
  /\ UNCHANGED serviceVars

SpecBatch == InitAgent /\ [][ProcessAIResponse]_vars

\* the parser of file actions on workspaces the executor has written to
NextParse ==
  \/ ParseActionsFromResponse
  \/ ProcessAIResponse

SpecParse == InitAgent /\ [][NextParse]_vars

\* paths and contents given to createFile and editFile
WrittenPaths == {"a.ts", "b.ts", "/w/b.ts"}

WrittenContents == {"x", ""}

\* AgentService.createFile(path, content)
CreateFile ==
  \E filePath \in WrittenPaths, content \in WrittenContents, outcome \in FileOutcomes :
    \E r \in { createFile(files, filePath, content, outcome) } :
        /\ files' = r.files
        /\ ret' = [fn |-> "createFile", success |-> r.success, error |-> r.error]
        /\ op' = [name |-> "createFile", path |-> filePath, content |-> content,
                  outcome |-> outcome]
        /\ UNCHANGED <<execLog, termLog, cards>>
        /\ UNCHANGED fixVars
        /\ UNCHANGED serviceVars

\* AgentService.editFile(path, newContent)
EditFile ==
  \E filePath \in WrittenPaths, content \in WrittenContents, outcome \in FileOutcomes :
    \E r \in { editFile(files, filePath, content, outcome) } :
        /\ files' = r.files
        /\ ret' = [fn |-> "editFile", success |-> r.success, error |-> r.error]
        /\ op' = [name |-> "editFile", path |-> filePath, content |-> content,
                  outcome |-> outcome]
        /\ UNCHANGED <<execLog, termLog, cards>>
        /\ UNCHANGED fixVars
        /\ UNCHANGED serviceVars

\* the two writers called directly
NextFiles ==
  \/ CreateFile
  \/ EditFile

SpecFiles == InitAgent /\ [][NextFiles]_vars

\* the session in which nothing is approved: direct calls and chat responses
NextUnattended ==
  \/ RunCommand
  \/ DeleteFile
  \/ ChatProcessAIResponse

SpecUnattended == InitAgent /\ [][NextUnattended]_vars

\* the chat session: responses are processed, approval cards approved or rejected
NextAgent ==
  \/ DeleteFile
  \/ ChatProcessAIResponse
  \/ ApproveAction
  \/ RejectAction

SpecAgent == InitAgent /\ [][NextAgent]_vars

----------------------------------------------------------------------------
(* The fix engine: calls of autoFixDiagnostics *)

\* config.maxAutoFixRetries as the constructor sets it
DefaultMaxAutoFixRetries == 3

\* calls of the fix engine in a session: fix calls and history resets
MaxCalls == 2

\* what the model answers to a fix prompt
FixResponses == { "", "~~~ts:a.ts\nfixed\n~~~" }

\* a call in progress: the function, where it is (pc), its result so far, and
\* for the record what it was given (input), the counts the history held for
\* its errors when it was called (before), the model invocations it made for
\* each (calls) and the identities its last verification saw (verified);
\* smartAutoFix has the command it runs again, the groups still to
\* do (the first is the current one) and the locals remaining and attempt;
\* iterations counts the iterations of the loop in progress; runWithAutoFix has
\* the maxRetries it reads, and the commands it started and the fixes it asked
\* for are counted
NewRun(fn, entry, errors) ==
  [ fn         |-> fn,
    entry      |-> entry,
    pc         |-> "loop",
    input      |-> errors,
    result     |-> NewResult(errors),
    errorToFix |-> NONE,
    calls      |-> [k \in Keys(errors) |-> 0],
    before     |-> [k \in Keys(errors) |-> HistoryGet(fixHistory, k)],
    verified   |-> NONE,
    command    |-> "",
    groups     |-> <<>>,
    remaining  |-> <<>>,
    attempt    |-> 0,
    iterations  |-> 0,
    maxRetries  |-> 0,
    commandRuns |-> 0,
    fixCalls    |-> 0,
    first       |-> NONE ]

Returned(run, result) ==
  [ name     |-> "return",
    fn       |-> run.fn,
    entry    |-> run.entry,
    input    |-> run.input,
    result   |-> result,
    calls    |-> run.calls,
    before   |-> run.before,
    verified |-> run.verified ]

RemoveAt(seq, i) == SubSeq(seq, 1, i - 1) \o SubSeq(seq, i + 1, Len(seq))

CountCall(calls, key) == HistorySet(calls, key, HistoryGet(calls, key) + 1)

\* autoFixDiagnostics(errors) is called: with no errors it returns at once
CallAutoFixDiagnostics(entry, errors) ==
  /\ started < MaxCalls
  /\ started' = started + 1
  /\ IF errors = <<>>
     THEN /\ op' = Returned(NewRun("autoFixDiagnostics", entry, errors),
                            [NewResult(errors) EXCEPT !.success = TRUE])
          /\ runs' = runs
     ELSE /\ op' = [name |-> "call", fn |-> "autoFixDiagnostics", entry |-> entry]
          /\ runs' = Append(runs, NewRun("autoFixDiagnostics", entry, errors))
  /\ UNCHANGED <<fixHistory, diag, modelCalls, maxAutoFixRetries>>
  /\ UNCHANGED serviceVars
  /\ UNCHANGED agentVars

\* the quick fix on one diagnostic the editor shows
FixSingleDiagnostic ==
  \E i \in DOMAIN diag :
    CallAutoFixDiagnostics("fixSingleDiagnostic", <<integrationDiagnosticToError(diag[i])>>)

\* the quick fix on the whole file
FixAllInFile ==
  CallAutoFixDiagnostics("fixAllInFile", getFileDiagnostics(diag))

\* an iteration that finds its error at the ceiling: it is dropped from the list
AfdSkip(i) ==
  /\ runs[i].fn = "autoFixDiagnostics" /\ runs[i].pc = "loop"
  /\ LoopContinues(runs[i].result, maxAutoFixRetries)
  /\ \E h \in { IterationHead(runs[i].result, fixHistory) } :
         /\ h.skip
         /\ fixHistory' = h.history
         /\ runs' = [runs EXCEPT ![i].result = h.result,
                                 ![i].iterations = @ + 1]
         /\ op' = [name |-> "iterate", fn |-> runs[i].fn, run |-> i,
                   key |-> errorKey(h.errorToFix), invoked |-> FALSE]
  /\ UNCHANGED <<diag, modelCalls, maxAutoFixRetries, started>>
  /\ UNCHANGED serviceVars
  /\ UNCHANGED agentVars

\* an iteration that attempts its error: the attempt is counted, the prompt is
\* built and the model is invoked
AfdAttempt(i) ==
  /\ runs[i].fn = "autoFixDiagnostics" /\ runs[i].pc = "loop"
  /\ LoopContinues(runs[i].result, maxAutoFixRetries)
  /\ \E h \in { IterationHead(runs[i].result, fixHistory) } :
         /\ ~h.skip
         /\ fixHistory' = h.history
         /\ modelCalls' = CountCall(modelCalls, errorKey(h.errorToFix))
         /\ runs' = [runs EXCEPT ![i].result = h.result,
                                 ![i].iterations = @ + 1,
                                 ![i].errorToFix = Some(h.errorToFix),
                                 ![i].calls = CountCall(@, errorKey(h.errorToFix)),
                                 ![i].pc = "model"]
         /\ op' = [name |-> "iterate", fn |-> runs[i].fn, run |-> i,
                   key |-> errorKey(h.errorToFix), invoked |-> TRUE]
  /\ UNCHANGED <<diag, maxAutoFixRetries, started>>
  /\ UNCHANGED serviceVars
  /\ UNCHANGED agentVars

\* the model invocation throws
AfdModelFails(i) ==
  /\ runs[i].fn = "autoFixDiagnostics" /\ runs[i].pc = "model"
  /\ runs' = [runs EXCEPT ![i].result = AttemptThrew(@), ![i].pc = "loop"]
  /\ op' = [name |-> "modelFails", fn |-> runs[i].fn, run |-> i]
  /\ UNCHANGED <<fixHistory, diag, modelCalls, maxAutoFixRetries, started>>
  /\ UNCHANGED serviceVars
  /\ UNCHANGED agentVars

\* the model answers with one of the responses given and
\* agentService.processAIResponse applies the answer; what it returns is not
\* read (pendingApprovals is kept in op for the record)
AfdApplyFixOf(i, responses) ==
  /\ runs[i].fn = "autoFixDiagnostics" /\ runs[i].pc = "model"
  /\ \E response \in responses :
       \E fo \in [1..Len(parseActionsFromResponse(response, files)) -> FileOutcomes],
          reports \in [{ k \in DOMAIN parseCommandsFromResponse(response) :
                            RunsUnattended(parseCommandsFromResponse(response)[k]) }
                        -> ProcessReports] :
         \E r \in { processAIResponse(response, files, fo, reports) } :
             /\ files' = r.files
             /\ execLog' = execLog \cup { [command |-> c, via |-> "auto"] : c \in r.ran }
             /\ op' = [name |-> "applyFix", fn |-> runs[i].fn, run |-> i,
                       pendingApprovals |-> r.pendingApprovals]
  /\ runs' = [runs EXCEPT ![i].pc = "wait"]
  /\ UNCHANGED <<ret, termLog, cards>>
  /\ UNCHANGED <<fixHistory, diag, modelCalls, maxAutoFixRetries, started>>
  /\ UNCHANGED serviceVars

\* the model answers and agentService.processAIResponse applies the answer
AfdApplyFix(i) == AfdApplyFixOf(i, FixResponses)

\* after the wait the refreshed diagnostics are compared with the list
AfdVerify(i) ==
  /\ runs[i].fn = "autoFixDiagnostics" /\ runs[i].pc = "wait"
  /\ \E current \in { HostDiagnostics(runs[i].errorToFix[1].file, diag) } :
         runs' = [runs EXCEPT
                    ![i].result = VerifyDiagnostics(@, runs[i].errorToFix[1], current),
                    ![i].verified = Some(Keys(current)),
                    ![i].pc = "loop"]
  /\ op' = [name |-> "verify", fn |-> runs[i].fn, run |-> i]
  /\ UNCHANGED <<fixHistory, diag, modelCalls, maxAutoFixRetries, started>>
  /\ UNCHANGED serviceVars
  /\ UNCHANGED agentVars

\* the loop is over: success is set and the result returned
AfdReturn(i) ==
  /\ runs[i].fn = "autoFixDiagnostics" /\ runs[i].pc = "loop"
  /\ ~LoopContinues(runs[i].result, maxAutoFixRetries)
  /\ op' = Returned(runs[i], Finished(runs[i].result))
  /\ runs' = RemoveAt(runs, i)
  /\ UNCHANGED <<fixHistory, diag, modelCalls, maxAutoFixRetries, started>>
  /\ UNCHANGED serviceVars
  /\ UNCHANGED agentVars

\* chat responses whose one command builds the project
BuildResponses == { "~~~bash\nnpm run build\n~~~" }

\* AgentIntegration.processAIResponse(aiResponse) for a response whose command
\* output shows errors: the response is processed, the errors are parsed and
\* smartAutoFix(action, errors) is called
CallSmartAutoFixOf(given) ==
  /\ started < MaxCalls
  /\ started' = started + 1
  /\ \E response \in BuildResponses :
       \E fo \in [1..Len(parseActionsFromResponse(response, files)) -> FileOutcomes],
          reports \in [{ i \in DOMAIN parseCommandsFromResponse(response) :
                            RunsUnattended(parseCommandsFromResponse(response)[i]) }
                        -> given] :
         \E r \in { processAIResponse(response, files, fo, reports) } :
         \E failing \in { { i \in DOMAIN r.terminalActions :
                               IF r.terminalActions[i].output \in {NONE, Some("")} THEN FALSE
                               ELSE hasErrors(r.terminalActions[i].output[1]) } } :
         \E first \in { i \in failing : \A j \in failing : i <= j } :
         \E action \in { r.terminalActions[first] } :
         \E errors \in { parseErrors(action.output[1], r.files) } :
         \E groups \in { errorsByFile(errors) } :
             /\ files' = r.files
             /\ execLog' = execLog \cup { [command |-> c, via |-> "auto"] : c \in r.ran }
             /\ runs' = Append(runs,
                   [NewRun("smartAutoFix", "processAIResponse", errors) EXCEPT
                      !.command = action.command,
                      !.groups = groups,
                      !.remaining = IF groups = <<>> THEN <<>> ELSE groups[1],
                      !.pc = IF groups = <<>> THEN "end" ELSE "loop"])
             /\ op' = [name |-> "call", fn |-> "smartAutoFix", entry |-> "processAIResponse"]
  /\ UNCHANGED <<ret, termLog, cards>>
  /\ UNCHANGED <<fixHistory, diag, modelCalls, maxAutoFixRetries>>
  /\ UNCHANGED serviceVars

CallSmartAutoFix == CallSmartAutoFixOf(ProcessReports)

\* an iteration of a group that finds its error at the ceiling
SafSkip(i) ==
  /\ runs[i].fn = "smartAutoFix" /\ runs[i].pc = "loop"
  /\ SmartLoopContinues(runs[i].attempt, runs[i].remaining, maxAutoFixRetries)
  /\ \E h \in { SmartIterationHead(runs[i].result, runs[i].remaining, fixHistory) } :
         /\ h.skip
         /\ fixHistory' = h.history
         /\ runs' = [runs EXCEPT ![i].result = h.result,
                                 ![i].remaining = h.remaining,
                                 ![i].iterations = @ + 1,
                                 ![i].attempt = @ + 1]
         /\ op' = [name |-> "iterate", fn |-> runs[i].fn, run |-> i,
                   key |-> errorKey(h.errorToFix), invoked |-> FALSE]
  /\ UNCHANGED <<diag, modelCalls, maxAutoFixRetries, started>>
  /\ UNCHANGED serviceVars
  /\ UNCHANGED agentVars

\* an iteration of a group that attempts its error
SafAttempt(i) ==
  /\ runs[i].fn = "smartAutoFix" /\ runs[i].pc = "loop"
  /\ SmartLoopContinues(runs[i].attempt, runs[i].remaining, maxAutoFixRetries)
  /\ \E h \in { SmartIterationHead(runs[i].result, runs[i].remaining, fixHistory) } :
         /\ ~h.skip
         /\ fixHistory' = h.history
         /\ modelCalls' = CountCall(modelCalls, errorKey(h.errorToFix))
         /\ runs' = [runs EXCEPT ![i].result = h.result,
                                 ![i].remaining = h.remaining,
                                 ![i].iterations = @ + 1,
                                 ![i].attempt = @ + 1,
                                 ![i].errorToFix = Some(h.errorToFix),
                                 ![i].calls = CountCall(@, errorKey(h.errorToFix)),
                                 ![i].pc = "model"]
         /\ op' = [name |-> "iterate", fn |-> runs[i].fn, run |-> i,
                   key |-> errorKey(h.errorToFix), invoked |-> TRUE]
  /\ UNCHANGED <<diag, maxAutoFixRetries, started>>
  /\ UNCHANGED serviceVars
  /\ UNCHANGED agentVars

\* the model invocation throws
SafModelFails(i) ==
  /\ runs[i].fn = "smartAutoFix" /\ runs[i].pc = "model"
  /\ runs' = [runs EXCEPT ![i].result = AttemptThrew(@), ![i].pc = "loop"]
  /\ op' = [name |-> "modelFails", fn |-> runs[i].fn, run |-> i]
  /\ UNCHANGED <<fixHistory, diag, modelCalls, maxAutoFixRetries, started>>
  /\ UNCHANGED serviceVars
  /\ UNCHANGED agentVars

\* the model answers with one of the responses given, the answer is applied
\* and the command is started again; what processAIResponse returns is not
\* read (pendingApprovals is kept in op for the record)
SafApplyFixOf(i, responses) ==
  /\ runs[i].fn = "smartAutoFix" /\ runs[i].pc = "model"
  /\ \E response \in responses :
       \E fo \in [1..Len(parseActionsFromResponse(response, files)) -> FileOutcomes],
          reports \in [{ k \in DOMAIN parseCommandsFromResponse(response) :
                            RunsUnattended(parseCommandsFromResponse(response)[k]) }
                        -> ProcessReports] :
         \E r \in { processAIResponse(response, files, fo, reports) } :
             /\ files' = r.files
             /\ execLog' = execLog \cup { [command |-> c, via |-> "auto"] : c \in r.ran }
             /\ op' = [name |-> "applyFix", fn |-> runs[i].fn, run |-> i,
                       pendingApprovals |-> r.pendingApprovals]
  /\ runs' = [runs EXCEPT ![i].pc = "rerun"]
  /\ UNCHANGED <<ret, termLog, cards>>
  /\ UNCHANGED <<fixHistory, diag, modelCalls, maxAutoFixRetries, started>>
  /\ UNCHANGED serviceVars

\* the model answers, the answer is applied and the command is started again
SafApplyFix(i) == SafApplyFixOf(i, FixResponses)

\* the command run again reports: its output is checked for the errors left
SafVerify(i) ==
  /\ runs[i].fn = "smartAutoFix" /\ runs[i].pc = "rerun"
  /\ \E report \in ProcessReports :
       \E output \in { executeCommandWithOutput(report).output } :
       \E v \in { SmartVerify(runs[i].result, runs[i].remaining, output, files) } :
           runs' = [runs EXCEPT
                      ![i].result = v.result,
                      ![i].remaining = v.remaining,
                      ![i].verified = Some(IF hasErrors(output)
                                           THEN Keys(parseErrors(output, files)) ELSE {}),
                      ![i].pc = IF v.break THEN "break" ELSE "loop"]
  /\ execLog' = execLog \cup { [command |-> runs[i].command, via |-> "verify"] }
  /\ op' = [name |-> "verify", fn |-> runs[i].fn, run |-> i]
  /\ UNCHANGED <<files, ret, termLog, cards>>
  /\ UNCHANGED <<fixHistory, diag, modelCalls, maxAutoFixRetries, started>>
  /\ UNCHANGED serviceVars

\* the loop of a group is over: its remaining errors become the result's and the
\* next group starts
SafGroupEnd(i) ==
  /\ runs[i].fn = "smartAutoFix"
  /\ \/ runs[i].pc = "break"
     \/ /\ runs[i].pc = "loop"
        /\ ~SmartLoopContinues(runs[i].attempt, runs[i].remaining, maxAutoFixRetries)
  /\ \E rest \in { Tail(runs[i].groups) } :
         runs' = [runs EXCEPT
                    ![i].result = GroupDone(@, runs[i].remaining),
                    ![i].groups = rest,
                    ![i].remaining = IF rest = <<>> THEN <<>> ELSE rest[1],
                    ![i].attempt = 0,
                    ![i].iterations = 0,
                    ![i].pc = IF rest = <<>> THEN "end" ELSE "loop"]
  /\ op' = [name |-> "groupEnd", fn |-> runs[i].fn, run |-> i]
  /\ UNCHANGED <<fixHistory, diag, modelCalls, maxAutoFixRetries, started>>
  /\ UNCHANGED serviceVars
  /\ UNCHANGED agentVars

\* all groups are done: success is set and the result returned
SafReturn(i) ==
  /\ runs[i].fn = "smartAutoFix" /\ runs[i].pc = "end"
  /\ op' = Returned(runs[i], Finished(runs[i].result))
  /\ runs' = RemoveAt(runs, i)
  /\ UNCHANGED <<fixHistory, diag, modelCalls, maxAutoFixRetries, started>>
  /\ UNCHANGED serviceVars
  /\ UNCHANGED agentVars

\* AgentIntegration.clearFixHistory() (on an empty history it changes nothing)
ClearFixHistory ==
  /\ started < MaxCalls
  /\ started' = started + 1
  /\ fixHistory # EmptyHistory
  /\ fixHistory' = EmptyHistory
  /\ modelCalls' = EmptyHistory
  /\ op' = [name |-> "clearFixHistory"]
  /\ UNCHANGED <<runs, diag, maxAutoFixRetries>>
  /\ UNCHANGED serviceVars
  /\ UNCHANGED agentVars

\* the host refreshes the diagnostics of the file while a call waits for it after
\* applying a fix: one of them is gone; no diagnostic comes back
DiagnosticsChange ==
  /\ \E i \in DOMAIN runs : runs[i].pc = "wait"
  /\ \E i \in DOMAIN diag : diag' = RemoveAt(diag, i)
  /\ op' = [name |-> "diagnosticsChange"]
  /\ UNCHANGED <<fixHistory, runs, modelCalls, maxAutoFixRetries, started>>
  /\ UNCHANGED serviceVars
  /\ UNCHANGED agentVars

\* every order in which the host can list the diagnostics
DiagnosticLists ==
  { l \in [1..Cardinality(Diagnostics) -> Diagnostics] :
      \A i, j \in DOMAIN l : i # j => l[i] # l[j] }

\* the state before the first fix call, the editor showing diagnostics
InitFixWith(diagnostics) ==
  /\ files = [q \in {"/w/a.ts"} |-> "old"]
  /\ ret = NoRet
  /\ execLog = {}
  /\ termLog = {}
  /\ cards = {}
  /\ op = [name |-> "init"]
  /\ fixHistory = EmptyHistory
  /\ runs = <<>>
  /\ diag = diagnostics
  /\ modelCalls = EmptyHistory
  /\ started = 0
  /\ InitServiceIdle

\* no fix call is in progress
Idle == runs = <<>>

\* no call of fn is in progress
Fresh(fn) == \A i \in DOMAIN runs : runs[i].fn # fn

\* two diagnostics in either order, any setting of the retries up to the default
InitFix ==
  /\ \E l \in DiagnosticLists : l[3].message = "m3" /\ InitFixWith(SubSeq(l, 1, 2))
  /\ maxAutoFixRetries \in 1..DefaultMaxAutoFixRetries

NextFix ==
  \/ Idle /\ FixSingleDiagnostic
  \/ Idle /\ FixAllInFile
  \/ Idle /\ CallSmartAutoFix
  \/ \E i \in DOMAIN runs : SafSkip(i)
  \/ \E i \in DOMAIN runs : SafAttempt(i)
  \/ \E i \in DOMAIN runs : SafModelFails(i)
  \/ \E i \in DOMAIN runs : SafApplyFix(i)
  \/ \E i \in DOMAIN runs : SafVerify(i)
  \/ \E i \in DOMAIN runs : SafGroupEnd(i)
  \/ \E i \in DOMAIN runs : SafReturn(i)
  \/ \E i \in DOMAIN runs : AfdSkip(i)
  \/ \E i \in DOMAIN runs : AfdAttempt(i)
  \/ \E i \in DOMAIN runs : AfdModelFails(i)
  \/ \E i \in DOMAIN runs : AfdApplyFix(i)
  \/ \E i \in DOMAIN runs : AfdVerify(i)
  \/ \E i \in DOMAIN runs : AfdReturn(i)
  \/ Idle /\ ClearFixHistory
  \/ DiagnosticsChange

\* the fix engine, one call at a time: the quick fixes, the failing builds and
\* the history resets between them
SpecFix == InitFix /\ [][NextFix]_vars

\* one diagnostic, the default retries
InitInterleaved ==
  /\ \E l \in DiagnosticLists : l[1].message = "m1" /\ InitFixWith(SubSeq(l, 1, 1))
  /\ maxAutoFixRetries = DefaultMaxAutoFixRetries

NextInterleaved ==
  \/ Fresh("autoFixDiagnostics") /\ FixSingleDiagnostic
  \/ Fresh("smartAutoFix") /\ CallSmartAutoFix
  \/ \E i \in DOMAIN runs : SafSkip(i)
  \/ \E i \in DOMAIN runs : SafAttempt(i)
  \/ \E i \in DOMAIN runs : SafModelFails(i)
  \/ \E i \in DOMAIN runs : SafApplyFix(i)
  \/ \E i \in DOMAIN runs : SafVerify(i)
  \/ \E i \in DOMAIN runs : SafGroupEnd(i)
  \/ \E i \in DOMAIN runs : SafReturn(i)
  \/ \E i \in DOMAIN runs : AfdSkip(i)
  \/ \E i \in DOMAIN runs : AfdAttempt(i)
  \/ \E i \in DOMAIN runs : AfdModelFails(i)
  \/ \E i \in DOMAIN runs : AfdApplyFix(i)
  \/ \E i \in DOMAIN runs : AfdVerify(i)
  \/ \E i \in DOMAIN runs : AfdReturn(i)
  \/ ClearFixHistory

\* a quick fix and the fix of a failing build in progress together, their steps
\* interleaved in every way (each await of the code yields to the other call
\* and to the reset command), on the same error
SpecInterleaved == InitInterleaved /\ [][NextInterleaved]_vars

\* three diagnostics in every order, the default retries
InitFixAll ==
  /\ \E l \in DiagnosticLists : InitFixWith(l)
  /\ maxAutoFixRetries = DefaultMaxAutoFixRetries

NextFixAll ==
  \/ Idle /\ FixAllInFile
  \/ \E i \in DOMAIN runs : AfdSkip(i)
  \/ \E i \in DOMAIN runs : AfdAttempt(i)
  \/ \E i \in DOMAIN runs : AfdModelFails(i)
  \/ \E i \in DOMAIN runs : AfdApplyFix(i)
  \/ \E i \in DOMAIN runs : AfdVerify(i)
  \/ \E i \in DOMAIN runs : AfdReturn(i)
  \/ DiagnosticsChange

\* the quick fix on a whole file of three errors, the diagnostics refreshed
\* while it waits
SpecFixAll == InitFixAll /\ [][NextFixAll]_vars

----------------------------------------------------------------------------
(* AutoFixService.runWithAutoFix *)

\* AutoFixService.config.maxRetries as the class sets it
DefaultMaxRetries == 3

\* AutoFixService.runCommand: what it resolves to for a report of the process
autoFixRunCommand(report) ==
  [ output   |-> report.stdout \o "\n" \o report.stderr,
    exitCode |-> IF report.error # NONE /\ report.code # NONE THEN report.code[1] ELSE 0 ]

\* the head of the while loop: with attempts left the next one is counted and
\* the command started, otherwise the result is returned
RwfLoop(i, run) ==
  IF run.attempt < run.maxRetries
  THEN /\ runs' = [runs EXCEPT ![i] = [run EXCEPT !.attempt = @ + 1,
                                                  !.result.attempts = run.attempt + 1,
                                                  !.commandRuns = @ + 1,
                                                  !.pc = "command"]]
       /\ op' = [name |-> "retry", fn |-> run.fn, run |-> i]
  ELSE /\ runs' = RemoveAt(runs, i)
       /\ op' = Returned(run, run.result)

\* runWithAutoFix(command, generateFix) is called: the first attempt is counted
\* and the command started (maxRetries is at least 1)
CallRunWithAutoFix ==
  /\ started < MaxCalls
  /\ started' = started + 1
  /\ \E maxRetries \in 1..DefaultMaxRetries :
       runs' = Append(runs,
         [NewRun("runWithAutoFix", "runWithAutoFix", <<>>) EXCEPT
            !.command = "npm run build",
            !.maxRetries = maxRetries,
            !.attempt = 1,
            !.commandRuns = 1,
            !.result = [success |-> FALSE, attempts |-> 1, errors |-> <<>>,
                        fixes |-> <<>>, finalOutput |-> ""],
            !.pc = "command"])
  /\ op' = [name |-> "call", fn |-> "runWithAutoFix", entry |-> "runWithAutoFix"]
  /\ UNCHANGED <<fixHistory, diag, modelCalls, maxAutoFixRetries>>
  /\ UNCHANGED serviceVars
  /\ UNCHANGED agentVars

\* the command has run: success, errors that cannot be parsed, or the first
\* error goes to generateFix
RwfCommandDoneOf(i, reports) ==
  /\ runs[i].fn = "runWithAutoFix" /\ runs[i].pc = "command"
  /\ \E report \in reports :
       \E r \in { autoFixRunCommand(report) } :
       \E errors \in { parseErrors(r.output, files) } :
       \E result \in { [runs[i].result EXCEPT !.finalOutput = r.output] } :
           IF r.exitCode = 0 /\ ~hasErrors(r.output)
           THEN /\ runs' = RemoveAt(runs, i)
                /\ op' = Returned(runs[i], [result EXCEPT !.success = TRUE])
           ELSE IF errors = <<>>
           THEN /\ runs' = RemoveAt(runs, i)
                /\ op' = Returned(runs[i], [result EXCEPT !.errors = errors])
           ELSE /\ runs' = [runs EXCEPT ![i].result = [result EXCEPT !.errors = errors],
                                        ![i].fixCalls = @ + 1,
                                        ![i].pc = "generate"]
                /\ op' = [name |-> "commandDone", fn |-> runs[i].fn, run |-> i]
  /\ execLog' = execLog \cup { [command |-> runs[i].command, via |-> "autoFix"] }
  /\ UNCHANGED <<files, ret, termLog, cards>>
  /\ UNCHANGED <<fixHistory, diag, modelCalls, maxAutoFixRetries, started>>
  /\ UNCHANGED serviceVars

RwfCommandDone(i) == RwfCommandDoneOf(i, ProcessReports)

\* generateFix answers and applyFix processes the answer; then the loop goes on
RwfFixDone(i) ==
  /\ runs[i].fn = "runWithAutoFix" /\ runs[i].pc = "generate"
  /\ \E response \in FixResponses :
       \E fo \in [1..Len(parseActionsFromResponse(response, files)) -> FileOutcomes] :
         \E r \in { processAIResponse(response, files, fo, <<>>) } :
             /\ files' = r.files
             /\ execLog' = execLog \cup { [command |-> c, via |-> "auto"] : c \in r.ran }
             /\ RwfLoop(i, [runs[i] EXCEPT !.result.fixes = Append(@, response)])
  /\ UNCHANGED <<ret, termLog, cards>>
  /\ UNCHANGED <<fixHistory, diag, modelCalls, maxAutoFixRetries, started>>
  /\ UNCHANGED serviceVars

\* generateFix throws: the loop goes on
RwfFixFails(i) ==
  /\ runs[i].fn = "runWithAutoFix" /\ runs[i].pc = "generate"
  /\ RwfLoop(i, runs[i])
  /\ UNCHANGED <<fixHistory, diag, modelCalls, maxAutoFixRetries, started>>
  /\ UNCHANGED serviceVars
  /\ UNCHANGED agentVars

NextLoops ==
  \/ Idle /\ FixSingleDiagnostic
  \/ Idle /\ FixAllInFile
  \/ Idle /\ CallSmartAutoFix
  \/ Idle /\ CallRunWithAutoFix
  \/ \E i \in DOMAIN runs : SafSkip(i)
  \/ \E i \in DOMAIN runs : SafAttempt(i)
  \/ \E i \in DOMAIN runs : SafModelFails(i)
  \/ \E i \in DOMAIN runs : SafApplyFix(i)
  \/ \E i \in DOMAIN runs : SafVerify(i)
  \/ \E i \in DOMAIN runs : SafGroupEnd(i)
  \/ \E i \in DOMAIN runs : SafReturn(i)
  \/ \E i \in DOMAIN runs : AfdSkip(i)
  \/ \E i \in DOMAIN runs : AfdAttempt(i)
  \/ \E i \in DOMAIN runs : AfdModelFails(i)
  \/ \E i \in DOMAIN runs : AfdApplyFix(i)
  \/ \E i \in DOMAIN runs : AfdVerify(i)
  \/ \E i \in DOMAIN runs : AfdReturn(i)
  \/ \E i \in DOMAIN runs : RwfCommandDone(i)
  \/ \E i \in DOMAIN runs : RwfFixDone(i)
  \/ \E i \in DOMAIN runs : RwfFixFails(i)
  \/ DiagnosticsChange

\* the three fix loops, one call at a time
SpecLoops == InitFix /\ [][NextLoops]_vars

----------------------------------------------------------------------------
(* smartAutoFix on the errors of several files *)

\* a build that reports an error in a.ts and an error in b.ts
TwoFileReport ==
  [error |-> Some("Command failed"), code |-> Some(1),
   stdout |-> "a.ts(1,1): error TS1: m1\nb.ts(2,1): error TS2: m2", stderr |-> ""]

\* smartAutoFix called for such a build, up to its return
NextGroups ==
  \/ Idle /\ CallSmartAutoFixOf({TwoFileReport})
  \/ \E i \in DOMAIN runs : SafSkip(i)
  \/ \E i \in DOMAIN runs : SafAttempt(i)
  \/ \E i \in DOMAIN runs : SafModelFails(i)
  \/ \E i \in DOMAIN runs : SafApplyFix(i)
  \/ \E i \in DOMAIN runs : SafVerify(i)
  \/ \E i \in DOMAIN runs : SafGroupEnd(i)
  \/ \E i \in DOMAIN runs : SafReturn(i)

SpecGroups == InitFix /\ [][NextGroups]_vars

----------------------------------------------------------------------------
(* Output with error indicators that no pattern matches *)

\* a failing build whose output names no file, line or known error form
MissReport ==
  [error |-> Some("Command failed"), code |-> Some(1), stdout |-> "Build failed", stderr |-> ""]

BuildReports == ProcessReports \cup {MissReport}

\* AgentIntegration.runCommandWithAutoFix(command): the command runs; without
\* error indicators its result is returned, otherwise the output is parsed and
\* smartAutoFix(action, errors) is called
CallRunCommandWithAutoFix ==
  /\ started < MaxCalls
  /\ started' = started + 1
  /\ \E report \in BuildReports :
       \E result \in { executeCommandWithOutput(report) } :
         IF ~hasErrors(result.output)
         THEN /\ op' = [name |-> "return", fn |-> "runCommandWithAutoFix",
                        first |-> result.output, commandRuns |-> 1, fixCalls |-> 0,
                        result |-> [success |-> result.success, output |-> result.output]]
              /\ runs' = runs
         ELSE \E groups \in { errorsByFile(parseErrors(result.output, files)) } :
              /\ runs' = Append(runs,
                   [NewRun("smartAutoFix", "runCommandWithAutoFix",
                           parseErrors(result.output, files)) EXCEPT
                      !.command = "npm run build",
                      !.groups = groups,
                      !.remaining = IF groups = <<>> THEN <<>> ELSE groups[1],
                      !.commandRuns = 1,
                      !.first = Some(result),
                      !.pc = IF groups = <<>> THEN "end" ELSE "loop"])
              /\ op' = [name |-> "call", fn |-> "smartAutoFix",
                        entry |-> "runCommandWithAutoFix"]
  /\ execLog' = execLog \cup { [command |-> "npm run build", via |-> "autoFix"] }
  /\ UNCHANGED <<files, ret, termLog, cards>>
  /\ UNCHANGED <<fixHistory, diag, modelCalls, maxAutoFixRetries>>
  /\ UNCHANGED serviceVars

\* smartAutoFix returns to runCommandWithAutoFix: after a successful result the
\* command runs once more, and success is that of the last run and of the fix
RcwSmartAutoFixDone(i) ==
  /\ runs[i].fn = "smartAutoFix" /\ runs[i].pc = "end"
  /\ runs[i].entry = "runCommandWithAutoFix"
  /\ \E autoFixResult \in { Finished(runs[i].result) } :
       \E result \in IF autoFixResult.success
                     THEN { executeCommandWithOutput(report) : report \in BuildReports }
                     ELSE { runs[i].first[1] } :
         /\ execLog' = IF autoFixResult.success
                       THEN execLog \cup { [command |-> runs[i].command, via |-> "rerun"] }
                       ELSE execLog
         /\ op' = [name |-> "return", fn |-> "runCommandWithAutoFix",
                   first |-> runs[i].first[1].output,
                   commandRuns |-> runs[i].commandRuns
                                   + (IF autoFixResult.success THEN 1 ELSE 0),
                   fixCalls |-> runs[i].result.attempts,
                   result |-> [success |-> result.success /\ autoFixResult.success,
                               output |-> result.output,
                               autoFixResult |-> autoFixResult]]
  /\ runs' = RemoveAt(runs, i)
  /\ UNCHANGED <<files, ret, termLog, cards>>
  /\ UNCHANGED <<fixHistory, diag, modelCalls, maxAutoFixRetries, started>>
  /\ UNCHANGED serviceVars

\* commands run with automatic fixing, by either service
NextMiss ==
  \/ Idle /\ CallRunWithAutoFix
  \/ Idle /\ CallRunCommandWithAutoFix
  \/ \E i \in DOMAIN runs : RwfCommandDoneOf(i, BuildReports)
  \/ \E i \in DOMAIN runs : RwfFixDone(i)
  \/ \E i \in DOMAIN runs : RwfFixFails(i)
  \/ \E i \in DOMAIN runs : SafSkip(i)
  \/ \E i \in DOMAIN runs : SafAttempt(i)
  \/ \E i \in DOMAIN runs : SafModelFails(i)
  \/ \E i \in DOMAIN runs : SafApplyFix(i)
  \/ \E i \in DOMAIN runs : SafVerify(i)
  \/ \E i \in DOMAIN runs : SafGroupEnd(i)
  \/ \E i \in DOMAIN runs : RcwSmartAutoFixDone(i)

SpecMiss == InitFix /\ [][NextMiss]_vars

----------------------------------------------------------------------------
(* The diagnostics queue of AgentIntegration *)

\* queueDiagnosticsForFix that pushes every error it is given
EnqueueAll(queue, errors) == queue \o errors

\* queueDiagnosticsForFix: the errors not yet in the queue are pushed
RECURSIVE Enqueue(_, _)
Enqueue(queue, errors) ==
  IF errors = <<>> THEN queue
  ELSE LET error  == Head(errors)
           exists == \E i \in DOMAIN queue :
                       /\ queue[i].file = error.file
                       /\ queue[i].line = error.line
                       /\ queue[i].message = error.message
       IN  Enqueue(IF exists THEN queue ELSE Append(queue, error), Tail(errors))

\* a drain step that takes the file of the newest queued error
TakeBatchNewest(queue) ==
  [ fileErrors |-> SelectSeq(queue, LAMBDA e : e.file = queue[Len(queue)].file),
    fixQueue   |-> SelectSeq(queue, LAMBDA e : e.file # queue[Len(queue)].file) ]

\* a drain step that forgets the errors of the other files
TakeBatchDrops(queue) ==
  [ fileErrors |-> SelectSeq(queue, LAMBDA e : e.file = queue[1].file),
    fixQueue   |-> <<>> ]

\* the loop body of processDiagnosticsQueue up to the call: the errors of the
\* file of the first queued error are taken out of the queue
TakeBatch(queue) ==
  [ fileErrors |-> SelectSeq(queue, LAMBDA e : e.file = queue[1].file),
    fixQueue   |-> SelectSeq(queue, LAMBDA e : e.file # queue[1].file) ]

\* the call processDiagnosticsQueue awaits is in progress
Draining == \E i \in DOMAIN runs : runs[i].entry = "processDiagnosticsQueue"

\* the events the host raises: the files whose diagnostics changed, in order
ChangedUris == { <<uriPath>>, <<otherPath>>, <<uriPath, otherPath>> }

\* the loop of handleDiagnosticsChange over event.uris: the errors of the files
\* that are not ignored, in order
RECURSIVE EventErrors(_, _)
EventErrors(uris, diagnostics) ==
  IF uris = <<>> THEN <<>>
  ELSE (IF shouldIgnoreFile(Head(uris)) THEN <<>>
        ELSE HostDiagnostics(Some(Head(uris)), diagnostics))
       \o EventErrors(Tail(uris), diagnostics)

\* this.lastDiagnostics after that loop: set for a file with errors, deleted
\* for a file without
EventLastDiagnostics(uris, diagnostics, last) ==
  LET seen    == { uris[i] : i \in { j \in DOMAIN uris : ~shouldIgnoreFile(uris[j]) } }
      withErr == { p \in seen : HostDiagnostics(Some(p), diagnostics) # <<>> }
  IN  [ p \in (DOMAIN last \ seen) \cup withErr |->
          IF p \in withErr THEN HostDiagnostics(Some(p), diagnostics) ELSE last[p] ]

\* config.onDiagnosticsChanged as AgentIntegration sets it (autoFixEnabled and
\* autoFixOnSave of AgentIntegration are on): queueDiagnosticsForFix pushes the
\* errors and starts processDiagnosticsQueue when it is not running: isFixing
\* is set and autoFixDiagnostics is called on the first batch
OnDiagnosticsChanged(errors) ==
  \E queue \in { Enqueue(fixQueue, errors) } :
    IF ~isFixing /\ queue # <<>>
    THEN \E b \in { TakeBatch(queue) } :
           /\ isFixing' = TRUE
           /\ fixQueue' = b.fixQueue
           /\ runs' = Append(runs, NewRun("autoFixDiagnostics",
                                          "processDiagnosticsQueue", b.fileErrors))
    ELSE /\ fixQueue' = queue
         /\ UNCHANGED <<isFixing, runs>>

\* DiagnosticsService.handleDiagnosticsChange for an event of the host: the
\* errors of the changed files that are not ignored are remembered and, when
\* there are any, go to onDiagnosticsChanged
HandleDiagnosticsChangeOf(events) ==
  /\ started < MaxCalls
  /\ started' = started + 1
  /\ \E uris \in events :
       \E errors \in { EventErrors(uris, diag) } :
           /\ lastDiagnostics' = EventLastDiagnostics(uris, diag, lastDiagnostics)
           /\ IF errors # <<>>
              THEN OnDiagnosticsChanged(errors)
              ELSE UNCHANGED <<isFixing, fixQueue, runs>>
           /\ op' = [name |-> "diagnosticsChanged", uris |-> uris,
                     pushed |-> Len(Enqueue(fixQueue, errors)) - Len(fixQueue)]
  /\ UNCHANGED <<fixHistory, diag, modelCalls, maxAutoFixRetries>>
  /\ UNCHANGED <<autoFixOnSave, saveDebounceTimers, pendingTimers, saves, chat>>
  /\ UNCHANGED agentVars

HandleDiagnosticsChange == HandleDiagnosticsChangeOf(ChangedUris)

\* the files the user brings to the front of the editor
EditorPaths == { uriPath, distPath }

\* DiagnosticsService.handleEditorChange(editor): the errors of the active file
\* are remembered and go to onDiagnosticsChanged when there are any
HandleEditorChange ==
  /\ started < MaxCalls
  /\ started' = started + 1
  /\ \E path \in EditorPaths :
       \E errors \in { HostDiagnostics(Some(path), diag) } :
           /\ IF errors # <<>>
              THEN /\ lastDiagnostics' =
                        [ p \in DOMAIN lastDiagnostics \cup {path} |->
                            IF p = path THEN errors ELSE lastDiagnostics[p] ]
                   /\ OnDiagnosticsChanged(errors)
              ELSE UNCHANGED <<lastDiagnostics, isFixing, fixQueue, runs>>
           /\ op' = [name |-> "editorChanged", path |-> path]
  /\ UNCHANGED <<fixHistory, diag, modelCalls, maxAutoFixRetries>>
  /\ UNCHANGED <<autoFixOnSave, saveDebounceTimers, pendingTimers, saves, chat>>
  /\ UNCHANGED agentVars

\* a loop exit of processDiagnosticsQueue that leaves the flag as it is
QueueNextKeepsFlag ==
  /\ isFixing /\ ~Draining
  /\ IF fixQueue # <<>>
     THEN \E b \in { TakeBatch(fixQueue) } :
            /\ fixQueue' = b.fixQueue
            /\ runs' = Append(runs, NewRun("autoFixDiagnostics",
                                           "processDiagnosticsQueue", b.fileErrors))
     ELSE UNCHANGED <<fixQueue, runs>>
  /\ UNCHANGED isFixing
  /\ op' = [name |-> "queueNext", moved |-> fixQueue # <<>>]
  /\ UNCHANGED <<fixHistory, diag, modelCalls, maxAutoFixRetries, started>>
  /\ UNCHANGED <<saveVars, chat>>
  /\ UNCHANGED agentVars

\* processDiagnosticsQueue after the awaited call and the delay: the next batch
\* is taken, or the queue is empty and isFixing is reset
QueueNext ==
  /\ isFixing /\ ~Draining
  /\ IF fixQueue # <<>>
     THEN \E b \in { TakeBatch(fixQueue) } :
            /\ fixQueue' = b.fixQueue
            /\ runs' = Append(runs, NewRun("autoFixDiagnostics",
                                           "processDiagnosticsQueue", b.fileErrors))
            /\ UNCHANGED isFixing
     ELSE /\ isFixing' = FALSE
          /\ UNCHANGED <<fixQueue, runs>>
  /\ op' = [name |-> "queueNext", moved |-> fixQueue # <<>>]
  /\ UNCHANGED <<fixHistory, diag, modelCalls, maxAutoFixRetries, started>>
  /\ UNCHANGED <<saveVars, chat>>
  /\ UNCHANGED agentVars

\* a status callback the caller configured throws outside the try of
\* autoFixDiagnostics: at the first status, at the status of an attempt after
\* the history was set, or at the last status. The call rejects; when
\* processDiagnosticsQueue awaited it, its finally resets isFixing and the
\* rejection leaves the loop with the queue as it is
AfdThrows(i) ==
  /\ runs[i].fn = "autoFixDiagnostics" /\ runs[i].pc = "loop"
  /\ \/ /\ \/ runs[i].iterations = 0
           \/ ~LoopContinues(runs[i].result, maxAutoFixRetries)
        /\ UNCHANGED fixHistory
     \/ /\ LoopContinues(runs[i].result, maxAutoFixRetries)
        /\ \E h \in { IterationHead(runs[i].result, fixHistory) } :
             ~h.skip /\ fixHistory' = h.history
  /\ runs' = RemoveAt(runs, i)
  /\ isFixing' = IF runs[i].entry = "processDiagnosticsQueue" THEN FALSE ELSE isFixing
  /\ op' = [name |-> "throw", fn |-> runs[i].fn, entry |-> runs[i].entry,
            input |-> runs[i].input]
  /\ UNCHANGED <<diag, modelCalls, maxAutoFixRetries, started>>
  /\ UNCHANGED <<fixQueue, saveVars, chat>>
  /\ UNCHANGED agentVars

\* two diagnostics of /w/a.ts in either order, the default retries
InitQueue ==
  /\ \E l \in DiagnosticLists : l[3].message = "m3" /\ InitFixWith(SubSeq(l, 1, 2))
  /\ maxAutoFixRetries = DefaultMaxAutoFixRetries

\* the session in which every call of autoFixDiagnostics returns
NextQueueReturns ==
  \/ HandleDiagnosticsChange
  \/ QueueNext
  \/ FixSingleDiagnostic
  \/ \E i \in DOMAIN runs : AfdSkip(i)
  \/ \E i \in DOMAIN runs : AfdAttempt(i)
  \/ \E i \in DOMAIN runs : AfdModelFails(i)
  \/ \E i \in DOMAIN runs : AfdApplyFix(i)
  \/ \E i \in DOMAIN runs : AfdVerify(i)
  \/ \E i \in DOMAIN runs : AfdReturn(i)
  \/ DiagnosticsChange

NextQueue ==
  \/ NextQueueReturns
  \/ \E i \in DOMAIN runs : AfdThrows(i)

\* the diagnostics events of a session in which a file of the build output has
\* errors too
ReportUris == ChangedUris \cup { <<distPath>>, <<distPath, uriPath>> }

NextReport ==
  \/ HandleDiagnosticsChangeOf(ReportUris)
  \/ HandleEditorChange
  \/ QueueNext
  \/ \E i \in DOMAIN runs : AfdSkip(i)
  \/ \E i \in DOMAIN runs : AfdAttempt(i)
  \/ \E i \in DOMAIN runs : AfdModelFails(i)
  \/ \E i \in DOMAIN runs : AfdApplyFix(i)
  \/ \E i \in DOMAIN runs : AfdVerify(i)
  \/ \E i \in DOMAIN runs : AfdReturn(i)
  \/ DiagnosticsChange

\* the host reports diagnostics and the user changes the active editor while
\* the queue is drained
SpecReport == InitQueue /\ [][NextReport]_vars

\* the drain loop and the events that feed it, no quick fix beside them
NextDrain ==
  \/ HandleDiagnosticsChange
  \/ QueueNext
  \/ \E i \in DOMAIN runs : AfdSkip(i)
  \/ \E i \in DOMAIN runs : AfdAttempt(i)
  \/ \E i \in DOMAIN runs : AfdModelFails(i)
  \/ \E i \in DOMAIN runs : AfdApplyFix(i)
  \/ \E i \in DOMAIN runs : AfdVerify(i)
  \/ \E i \in DOMAIN runs : AfdReturn(i)
  \/ DiagnosticsChange

\* the queue with every awaited step of the drain loop taken in the end: the
\* delay between two files elapses, the model answers or throws, the wait for
\* the editor ends. The events of the host and of the user are under no
\* obligation
SpecQueueFair ==
  /\ InitQueue /\ [][NextDrain]_vars
  /\ WF_vars(QueueNext)
  /\ WF_vars(\E i \in DOMAIN runs : AfdSkip(i))
  /\ WF_vars(\E i \in DOMAIN runs : AfdAttempt(i))
  /\ WF_vars(\E i \in DOMAIN runs : AfdModelFails(i) \/ AfdApplyFix(i))
  /\ WF_vars(\E i \in DOMAIN runs : AfdVerify(i))
  /\ WF_vars(\E i \in DOMAIN runs : AfdReturn(i))

\* the diagnostics queue drained file by file while the host reports errors, with
\* the quick fix on one diagnostic available at any time
SpecQueue == InitQueue /\ [][NextQueue]_vars

----------------------------------------------------------------------------
(* DiagnosticsService: the debounce of the auto-fix on save *)

\* the documents the user saves
SavedPaths == { uriPath, otherPath, distPath }

\* at most MaxSaves documents are saved in a session
MaxSaves == 4

\* handleDocumentSave that leaves the timer of an earlier save running
handleDocumentSaveStacks(path, enabled, timers, pending, handle) ==
  IF ~enabled \/ shouldIgnoreFile(path)
  THEN [saveDebounceTimers |-> timers, pendingTimers |-> pending, cancelled |-> NONE]
  ELSE [ saveDebounceTimers |->
           [q \in DOMAIN timers \cup {path} |-> IF q = path THEN handle ELSE timers[q]],
         pendingTimers |-> pending \cup { [handle |-> handle, path |-> path] },
         cancelled |-> NONE ]

\* handleDocumentSave(document): unless auto-fix on save is off or the file is
\* ignored, the timer the map holds for the path is cleared and a new one
\* (handle) is set and stored. (isAutoFixing is false whenever an event is
\* handled: autoFixFile sets and resets it without awaiting in between.)
handleDocumentSave(path, enabled, timers, pending, handle) ==
  IF ~enabled \/ shouldIgnoreFile(path)
  THEN [saveDebounceTimers |-> timers, pendingTimers |-> pending, cancelled |-> NONE]
  ELSE LET existingTimer == IF path \in DOMAIN timers THEN Some(timers[path]) ELSE NONE
           cleared == IF existingTimer = NONE THEN pending
                      ELSE { t \in pending : t.handle # existingTimer[1] }
       IN  [ saveDebounceTimers |->
               [q \in DOMAIN timers \cup {path} |-> IF q = path THEN handle ELSE timers[q]],
             pendingTimers |-> cleared \cup { [handle |-> handle, path |-> path] },
             cancelled |-> IF existingTimer # NONE
                              /\ \E t \in pending : t.handle = existingTimer[1]
                           THEN existingTimer ELSE NONE ]

\* the host's onDidSaveTextDocument event for one of the documents
HandleDocumentSaveOf(paths) ==
  /\ saves < MaxSaves
  /\ saves' = saves + 1
  /\ \E path \in paths :
       \E r \in { handleDocumentSave(path, autoFixOnSave, saveDebounceTimers,
                                      pendingTimers, saves + 1) } :
           /\ saveDebounceTimers' = r.saveDebounceTimers
           /\ pendingTimers' = r.pendingTimers
           /\ op' = [name |-> "save", path |-> path, cancelled |-> r.cancelled]
  /\ UNCHANGED <<autoFixOnSave, lastDiagnostics, queueVars, chat>>
  /\ UNCHANGED fixVars
  /\ UNCHANGED agentVars

HandleDocumentSave == HandleDocumentSaveOf(SavedPaths)

\* autoFixFile(uri): the errors remembered for the file are counted; with
\* errors isAutoFixing is set, onAutoFixStart and onAutoFixComplete are called
\* with the counts and isAutoFixing is reset, nothing else: what it returns
autoFixFile(path, last) ==
  LET errors == IF path \in DOMAIN last THEN last[path] ELSE <<>>
  IN  [ fixed |-> 0, remaining |-> Len(errors), announced |-> errors # <<>> ]

\* a timer's delay is over: autoFixFile(uri) runs, then the path's entry is
\* deleted from the map
TimerFires ==
  /\ \E t \in pendingTimers :
       /\ pendingTimers' = pendingTimers \ {t}
       /\ saveDebounceTimers' =
            [q \in DOMAIN saveDebounceTimers \ {t.path} |-> saveDebounceTimers[q]]
       /\ op' = [name |-> "autoFixFile", path |-> t.path, timer |-> t.handle,
                 result |-> autoFixFile(t.path, lastDiagnostics)]
  /\ UNCHANGED <<autoFixOnSave, saves, lastDiagnostics, queueVars, chat>>
  /\ UNCHANGED fixVars
  /\ UNCHANGED agentVars

\* auto-fix on save on or off, nothing else going on
InitDebounce ==
  /\ files \in InitialWorkspaces
  /\ ret = NoRet
  /\ execLog = {}
  /\ termLog = {}
  /\ cards = {}
  /\ op = [name |-> "init"]
  /\ fixHistory = EmptyHistory
  /\ runs = <<>>
  /\ diag = <<>>
  /\ modelCalls = EmptyHistory
  /\ maxAutoFixRetries = DefaultMaxAutoFixRetries
  /\ started = 0
  /\ isFixing = FALSE
  /\ fixQueue = <<>>
  /\ autoFixOnSave \in BOOLEAN
  /\ saveDebounceTimers = [q \in {} |-> 0]
  /\ pendingTimers = {}
  /\ saves = 0
  /\ lastDiagnostics = [q \in {} |-> <<>>]
  /\ chat = ChatIdle

NextDebounce ==
  \/ HandleDocumentSave
  \/ TimerFires

\* documents saved and timers firing in any order
SpecDebounce == InitDebounce /\ [][NextDebounce]_vars

\* the debounce beside the diagnostics queue
NextSave ==
  \/ HandleDiagnosticsChangeOf({ <<uriPath>> })
  \/ HandleDocumentSaveOf({ uriPath })
  \/ TimerFires
  \/ QueueNext
  \/ \E i \in DOMAIN runs : AfdSkip(i)
  \/ \E i \in DOMAIN runs : AfdAttempt(i)
  \/ \E i \in DOMAIN runs : AfdModelFails(i)
  \/ \E i \in DOMAIN runs : AfdApplyFix(i)
  \/ \E i \in DOMAIN runs : AfdVerify(i)
  \/ \E i \in DOMAIN runs : AfdReturn(i)
  \/ DiagnosticsChange

\* one file with one diagnostic, auto-fix on save on: the host reports the
\* diagnostics, the user saves the file, the timers fire
SpecSave == InitInterleaved /\ [][NextSave]_vars

----------------------------------------------------------------------------
(* ChatViewProvider.handleUserMessage: the streamed answer and its abort *)

\* the answers of the model as the chunks the provider yields
ChunkedResponses ==
  { <<"~~~ts:a.ts\ny\n~~~\n", "~~~bash\nnpm run build\n~~~">>,
    <<"~~~ts:a.ts\nz", "z\n~~~">> }

\* handleUserMessage(content) up to the first chunk: isLoading is set, a new
\* AbortController is made and the provider is asked to stream
HandleUserMessage ==
  /\ chat.pc = "idle"
  /\ started < MaxCalls
  /\ started' = started + 1
  /\ \E chunks \in ChunkedResponses :
       chat' = [pc |-> "streaming", aborted |-> FALSE, chunks |-> chunks,
                assistantContent |-> ""]
  /\ op' = [name |-> "userMessage"]
  /\ UNCHANGED <<fixHistory, runs, diag, modelCalls, maxAutoFixRetries>>
  /\ UNCHANGED <<queueVars, saveVars>>
  /\ UNCHANGED agentVars

\* the webview's abort message while the answer streams: abortController.abort()
Abort ==
  /\ chat.pc = "streaming" /\ ~chat.aborted
  /\ chat' = [chat EXCEPT !.aborted = TRUE]
  /\ op' = [name |-> "abort"]
  /\ UNCHANGED fixVars
  /\ UNCHANGED <<queueVars, saveVars>>
  /\ UNCHANGED agentVars

\* the next turn of the for await loop: a chunk arrives and is appended unless
\* the signal is aborted, which breaks the loop; or the stream is over
StreamChunk ==
  /\ chat.pc = "streaming"
  /\ chat' = IF chat.chunks = <<>> \/ chat.aborted
             THEN [chat EXCEPT !.pc = "process"]
             ELSE [chat EXCEPT !.assistantContent = @ \o Head(chat.chunks),
                               !.chunks = Tail(@)]
  /\ op' = [name |-> "chunk"]
  /\ UNCHANGED fixVars
  /\ UNCHANGED <<queueVars, saveVars>>
  /\ UNCHANGED agentVars

\* after the loop: agentIntegration.processAIResponse(assistantContent), up to the
\* return or, when the output of a command shows errors, up to the call of
\* smartAutoFix on the first such command
ChatFinish ==
  /\ chat.pc = "process"
  /\ \E response \in { chat.assistantContent } :
       \E fo \in [1..Len(parseActionsFromResponse(response, files)) -> FileOutcomes],
          reports \in [{ i \in DOMAIN parseCommandsFromResponse(response) :
                            RunsUnattended(parseCommandsFromResponse(response)[i]) }
                        -> ProcessReports] :
         \E r \in { processAIResponse(response, files, fo, reports) } :
         \E failing \in { { i \in DOMAIN r.terminalActions :
                               IF r.terminalActions[i].output \in {NONE, Some("")} THEN FALSE
                               ELSE hasErrors(r.terminalActions[i].output[1]) } } :
             /\ files' = r.files
             /\ execLog' = execLog \cup { [command |-> c, via |-> "auto"] : c \in r.ran }
             /\ IF failing = {}
                THEN /\ ret' = [fn |-> "processAIResponse", fileActions |-> r.fileActions,
                                terminalActions |-> r.terminalActions,
                                pendingApprovals |-> r.pendingApprovals]
                     /\ cards' = IF r.pendingApprovals # <<>>
                                 THEN Range(r.pendingApprovals) ELSE cards
                     /\ runs' = runs
                     /\ chat' = ChatIdle
                ELSE \E first \in { i \in failing : \A j \in failing : i <= j } :
                     \E action \in { r.terminalActions[first] } :
                     \E errors \in { parseErrors(action.output[1], r.files) } :
                     \E groups \in { errorsByFile(errors) } :
                       /\ runs' = Append(runs,
                            [NewRun("smartAutoFix", "handleUserMessage", errors) EXCEPT
                               !.command = action.command,
                               !.groups = groups,
                               !.remaining = IF groups = <<>> THEN <<>> ELSE groups[1],
                               !.pc = IF groups = <<>> THEN "end" ELSE "loop"])
                       /\ chat' = [chat EXCEPT !.pc = "fixing"]
                       /\ UNCHANGED <<ret, cards>>
             /\ op' = [name |-> "chatFinish", aborted |-> chat.aborted,
                       executed |-> { i \in DOMAIN r.fileActions :
                                        r.fileActions[i].status = "executed" },
                       ran |-> r.ran, fixing |-> failing # {}]
  /\ UNCHANGED termLog
  /\ UNCHANGED <<fixHistory, diag, modelCalls, maxAutoFixRetries, started>>
  /\ UNCHANGED <<queueVars, saveVars>>

\* smartAutoFix has returned to processAIResponse, which returns: isLoading is reset
ChatFixDone ==
  /\ chat.pc = "fixing"
  /\ \A i \in DOMAIN runs : runs[i].entry # "handleUserMessage"
  /\ chat' = ChatIdle
  /\ op' = [name |-> "chatDone"]
  /\ UNCHANGED fixVars
  /\ UNCHANGED <<queueVars, saveVars>>
  /\ UNCHANGED agentVars

NextChat ==
  \/ HandleUserMessage
  \/ Abort
  \/ StreamChunk
  \/ ChatFinish
  \/ ChatFixDone
  \/ \E i \in DOMAIN runs : SafSkip(i)
  \/ \E i \in DOMAIN runs : SafAttempt(i)
  \/ \E i \in DOMAIN runs : SafModelFails(i)
  \/ \E i \in DOMAIN runs : SafApplyFix(i)
  \/ \E i \in DOMAIN runs : SafVerify(i)
  \/ \E i \in DOMAIN runs : SafGroupEnd(i)
  \/ \E i \in DOMAIN runs : SafReturn(i)

\* the chat panel: messages answered in chunks, the user aborting at any chunk
SpecChat == InitAgent /\ [][NextChat]_vars

----------------------------------------------------------------------------
(* AgentService.isCommandSafe on its own *)

\* white space before and after a command
Paddings == { "", " ", "  ", "\t", "\n" }

\* agentService.isCommandSafe(command)
IsCommandSafe ==
  /\ \E base \in CommandTexts, lead \in Paddings, trail \in Paddings :
       /\ ret' = [fn |-> "isCommandSafe", safe |-> isCommandSafe(lead \o base \o trail)]
       /\ op' = [name |-> "isCommandSafe", base |-> base, lead |-> lead, trail |-> trail]
  /\ UNCHANGED <<files, execLog, termLog, cards>>
  /\ UNCHANGED fixVars
  /\ UNCHANGED serviceVars

\* the classifier asked about one command after another
SpecClassify == InitAgent /\ [][IsCommandSafe]_vars

----------------------------------------------------------------------------
(* ErrorDetector on tool output *)

\* lines of tool output
DetectLines ==
  { "a.ts(1,1): error TS1: m1", "/w/a.ts(1,1): error TS1: m1",
    "a.ts(3,1): error TS1: m1", "b.ts(2,1): error TS2: m2",
    "Couldn't find package", "build failed", "ok" }

\* outputs of one line and of two
DetectTexts ==
  DetectLines \cup { a \o "\n" \o b : a \in DetectLines, b \in DetectLines }

\* errorDetector.hasErrors(output) and errorDetector.parseErrors(output)
DetectErrors ==
  /\ \E output \in DetectTexts :
       /\ ret' = [fn |-> "errorDetector", hasErrors |-> hasErrors(output),
                  errors |-> parseErrors(output, files)]
       /\ op' = [name |-> "errorDetector", output |-> output]
  /\ UNCHANGED <<files, execLog, termLog, cards>>
  /\ UNCHANGED fixVars
  /\ UNCHANGED serviceVars

\* the detector applied to tool output, the workspace with or without a.ts
SpecDetect == InitAgent /\ [][DetectErrors]_vars

----------------------------------------------------------------------------
(* ErrorDetector.parseErrors: the sort of the errors found *)

\* the severities of the type ParsedError, and those the extractors of
\* ERROR_PATTERNS set (no entry of the table sets a severity of its own)
Severities == {"error", "warning", "info"}

ProducedSeverities == {"error", "warning"}

MaxErrors == 3

\* the sort-relevant fields of a parsed error
SortRecords(severities) ==
  [severity : severities, line : {NONE, Some(1), Some(2)}]

\* the lists the two loops of parseErrors can have pushed
PushedLists ==
  UNION { [1..n -> SortRecords(ProducedSeverities)] : n \in 0..MaxErrors }

\* a comparator that looks at the line only
compareErrorsByLine(a, b) == LineOrZero(a) - LineOrZero(b)

\* the comparator given to errors.sort
compareErrors(a, b) ==
  IF a.severity # b.severity
  THEN (IF a.severity = "error" THEN -1 ELSE 1)
  ELSE LineOrZero(a) - LineOrZero(b)

\* Array.prototype.sort with compareErrors, a stable sort: each element goes
\* behind the elements it does not precede
sortErrors(errors) ==
  LET Insert(sorted, x) ==
        LET j == Cardinality({ k \in DOMAIN sorted : compareErrors(sorted[k], x) <= 0 })
        IN  SubSeq(sorted, 1, j) \o <<x>> \o SubSeq(sorted, j + 1, Len(sorted))
      ins[n \in 0..Len(errors)] == IF n = 0 THEN <<>> ELSE Insert(ins[n - 1], errors[n])
  IN  ins[Len(errors)]

\* the last statement of parseErrors on the errors pushed
SortErrors ==
  /\ \E errors \in PushedLists :
       op' = [name |-> "sortErrors", input |-> errors, result |-> sortErrors(errors)]
  /\ UNCHANGED agentVars
  /\ UNCHANGED fixVars
  /\ UNCHANGED serviceVars

\* the comparator applied to errors of the type ParsedError, in both orders
\* and along a chain of three
CompareErrors ==
  /\ \E a \in SortRecords(Severities), b \in SortRecords(Severities),
        c \in SortRecords(Severities) :
       op' = [name |-> "compare", a |-> a, b |-> b, c |-> c,
              ab |-> compareErrors(a, b), ba |-> compareErrors(b, a),
              bc |-> compareErrors(b, c), ac |-> compareErrors(a, c)]
  /\ UNCHANGED agentVars
  /\ UNCHANGED fixVars
  /\ UNCHANGED serviceVars

NextSort ==
  \/ SortErrors
  \/ CompareErrors

SpecSort == InitAgent /\ [][NextSort]_vars

----------------------------------------------------------------------------
(* ErrorDetector.getFixPriority on every kind of error *)

\* the type ErrorType
ErrorTypes ==
  { "typescript", "javascript", "eslint", "prettier", "react", "next", "gatsby", "remix",
    "vue", "nuxt", "vite", "react-native", "expo", "flutter", "swift", "kotlin",
    "android", "ios", "xcode", "gradle", "webpack", "rollup", "esbuild", "parcel",
    "turbopack", "css", "sass", "less", "tailwind", "postcss", "styled-components",
    "jest", "vitest", "mocha", "cypress", "playwright", "detox", "runtime", "syntax",
    "module", "network", "memory", "npm", "yarn", "pnpm", "cocoapods", "pub",
    "build", "lint", "unknown" }

\* the kinds every kind is compared with: those of the table and three others
ComparedTypes ==
  { "syntax", "typescript", "module", "eslint", "runtime", "build",
    "lint", "unknown", "yarn" }

\* getFixPriority(a) and getFixPriority(b), as the comparator of smartAutoFix
\* asks for them
GetFixPriority ==
  /\ \E a \in ErrorTypes, b \in ComparedTypes :
       op' = [name |-> "getFixPriority", a |-> a, b |-> b,
              pa |-> getFixPriority([type |-> a]), pb |-> getFixPriority([type |-> b])]
  /\ UNCHANGED agentVars
  /\ UNCHANGED fixVars
  /\ UNCHANGED serviceVars

SpecPriority == InitAgent /\ [][GetFixPriority]_vars

----------------------------------------------------------------------------
(* Properties of the safety gate *)

MatchesNeither(command) ==
  ~MatchesDangerous(Trim(command)) /\ ~MatchesSafe(Trim(command))

PendingUntouched(action, pendingApprovals) ==
  /\ action.status = "pending"
  /\ action.output = NONE
  /\ action.exitCode = NONE
  /\ action \in Range(pendingApprovals)

\* C1: a command text that matches neither table is classified unsafe;
\* runCommand answers needsApproval without sending it to the terminal, and
\* processAIResponse leaves it pending, without output, among the pending
\* approvals; no such command is ever run or sent unattended.
C1_DefaultDeny ==
  /\ op.name = "runCommand" /\ MatchesNeither(op.command) =>
       /\ ~isCommandSafe(op.command)
       /\ ret.needsApproval /\ ~ret.success
       /\ op.command \notin termLog
  /\ op.name = "processAIResponse" =>
       \A i \in DOMAIN ret.terminalActions :
         MatchesNeither(ret.terminalActions[i].command) =>
           /\ PendingUntouched(ret.terminalActions[i], ret.pendingApprovals)
           /\ ret.terminalActions[i].command \notin op.ran
  /\ \A c \in termLog : ~MatchesNeither(c)
  /\ \A e \in execLog : ~MatchesNeither(e.command)

C1_Witness ==
  /\ op.name = "runCommand"
  /\ MatchesNeither(op.command)
  /\ ret.needsApproval
  /\ termLog # {}

C3_DangerousNeverAutoRun ==
  /\ op.name = "processAIResponse" =>
       /\ \A i \in DOMAIN ret.terminalActions :
            LET action == ret.terminalActions[i]
            IN  /\ action.isDangerous = ~isCommandSafe(action.command)
                /\ action.isDangerous => PendingUntouched(action, ret.pendingApprovals)
                /\ ~action.isDangerous =>
                     /\ action.status \in {"executed", "failed"}
                     /\ action.output # NONE /\ action.exitCode # NONE
                     /\ action \notin Range(ret.pendingApprovals)
       /\ op.ran = { ret.terminalActions[i].command :
                       i \in { j \in DOMAIN ret.terminalActions :
                                 ~ret.terminalActions[j].isDangerous } }
  /\ \A e \in execLog : e.via = "auto" => isCommandSafe(e.command)

C3_Witness ==
  /\ op.name = "processAIResponse"
  /\ \E i, j \in DOMAIN ret.terminalActions :
       /\ ret.terminalActions[i].isDangerous
       /\ ret.terminalActions[i].status = "pending"
       /\ ~ret.terminalActions[j].isDangerous
       /\ ret.terminalActions[j].status = "executed"

\* C4: deleteFile removes nothing and answers needsApproval without success;
\* a file leaves the workspace only in the step of an approval message whose
\* action is a delete.
C4_DeleteNeedsApproval ==
  /\ [](op.name = "deleteFile" => ret.needsApproval /\ ~ret.success)
  /\ [][ /\ op'.name = "deleteFile" => files' = files
         /\ DOMAIN files \ DOMAIN files' # {} =>
              /\ op'.name = "approveAction"
              /\ op'.action.type = "delete"
              /\ DOMAIN files \ DOMAIN files' = {resolvePath(op'.action.path)} ]_vars

C4_Witness ==
  /\ op.name = "deleteFile"
  /\ resolvePath(op.path) \in DOMAIN files
  /\ ret.needsApproval
  /\ cards # {}

----------------------------------------------------------------------------
(* Properties of the fix engine *)

\* the errors a returned call had to itself: the first of the list of
\* autoFixDiagnostics, the first of each file group of smartAutoFix
FirstTargets(r) ==
  IF r.input = <<>> THEN {}
  ELSE IF r.fn = "autoFixDiagnostics" THEN { errorKey(r.input[1]) }
  ELSE { errorKey(g[1]) : g \in Range(errorsByFile(r.input)) }

\* the error a call at the head of its loop selects
Selected(run) ==
  IF run.fn = "autoFixDiagnostics" THEN Head(run.result.remainingErrors)
  ELSE Head(run.remaining)

AtLoopHead(run) ==
  /\ run.pc = "loop"
  /\ IF run.fn = "autoFixDiagnostics"
     THEN LoopContinues(run.result, maxAutoFixRetries)
     ELSE SmartLoopContinues(run.attempt, run.remaining, maxAutoFixRetries)

\* C5 (as amended): when no fix of a call resolves anything, the call invokes
\* the model for its target exactly min(maxRetries, ceiling - c) times, c being
\* the count the history held for the target when the call started and the
\* ceiling 2; the history then holds c plus that number, and a target whose
\* count was already 2 is not attempted at all.
C5_AttemptsUpToCeiling ==
  op.name = "return" /\ op.result.errorsFixed = 0 =>
    \A k \in FirstTargets(op) :
      /\ op.calls[k] = Min(maxAutoFixRetries, Ceiling - op.before[k])
      /\ HistoryGet(fixHistory, k) = op.before[k] + op.calls[k]
      /\ op.before[k] = Ceiling => op.calls[k] = 0

C5_Witness ==
  /\ op.name = "return"
  /\ op.result.errorsFixed = 0
  /\ maxAutoFixRetries = 3
  /\ op.result.attempts = 3
  /\ \E k \in FirstTargets(op) :
       op.before[k] = 0 /\ op.calls[k] = Ceiling /\ HistoryGet(fixHistory, k) = Ceiling

\* C5 (as stated): a target that is never resolved is attempted exactly
\* min(maxRetries, ceiling) times and then never again; with maxRetries = 3 the
\* count of attempts stops at 3.
C5_AttemptsAsStated ==
  op.name = "return" /\ op.result.errorsFixed = 0 =>
    \A k \in FirstTargets(op) :
      IF op.before[k] = 0
      THEN /\ op.calls[k] = Min(maxAutoFixRetries, Ceiling)
           /\ maxAutoFixRetries = 3 => op.calls[k] = 3
      ELSE op.calls[k] = 0

\* C6: the history count of every identity is at most the ceiling 2, and since
\* the last reset the model was invoked at most 2 times for any identity,
\* whatever calls are in progress and however their steps interleave.
C6_CircuitBreaker ==
  /\ \A k \in DOMAIN fixHistory : fixHistory[k] <= Ceiling
  /\ \A k \in DOMAIN modelCalls : modelCalls[k] <= Ceiling

C6_Witness ==
  /\ Len(runs) = 2
  /\ op.name = "iterate" /\ ~op.invoked
  /\ modelCalls[op.key] = Ceiling
  /\ \A i \in DOMAIN runs : runs[i].calls[op.key] = 1

\* C7: when a call returns, every error it was given whose identity the last
\* verification still saw is among remainingErrors, and success is false if
\* there is one.
C7_StillPresentIsRemaining ==
  op.name = "return" /\ op.verified # NONE =>
    LET still == { i \in DOMAIN op.input : errorKey(op.input[i]) \in op.verified[1] }
    IN  /\ \A i \in still : errorKey(op.input[i]) \in Keys(op.result.remainingErrors)
        /\ still # {} => ~op.result.success

\* C8: fixAllInFile on three errors of which exactly one is gone from the
\* refreshed diagnostics and two persist returns errorsFixed = 1, two
\* remaining errors and success false.
C8_PartialFixReported ==
  /\ op.name = "return" /\ op.entry = "fixAllInFile"
  /\ Len(op.input) = 3 /\ op.verified # NONE
  /\ Cardinality(Keys(op.input) \ op.verified[1]) = 1
  => /\ op.result.errorsFixed = 1
     /\ Len(op.result.remainingErrors) = 2
     /\ ~op.result.success

\* C9: an iteration that selects an error whose history count is at or above
\* the ceiling invokes nothing and changes nothing but the result: the call
\* stays at the head of its loop, the history, the model invocations, the
\* workspace and the commands run are unchanged, and errorsFailed is one more.
C9_SkipAtCeiling ==
  [][ \A i \in DOMAIN runs :
        /\ AtLoopHead(runs[i])
        /\ HistoryGet(fixHistory, errorKey(Selected(runs[i]))) >= Ceiling
        /\ op'.name = "iterate" /\ op'.run = i
        => /\ ~op'.invoked
           /\ op'.key = errorKey(Selected(runs[i]))
           /\ fixHistory' = fixHistory
           /\ modelCalls' = modelCalls
           /\ files' = files /\ execLog' = execLog /\ termLog' = termLog
           /\ runs'[i].pc = "loop"
           /\ runs'[i].calls = runs[i].calls
           /\ runs'[i].result.errorsFailed = runs[i].result.errorsFailed + 1
           /\ runs'[i].result.errorsFixed = runs[i].result.errorsFixed ]_vars

C9_Witness ==
  /\ op.name = "iterate" /\ ~op.invoked
  /\ HistoryGet(fixHistory, op.key) = Ceiling
  /\ runs[op.run].result.errorsFailed > 0
  /\ files["/w/a.ts"] = "fixed"

\* C10: in every step the count of every identity in the history stays or
\* grows and no identity leaves it, unless the step is clearFixHistory, which
\* leaves the history empty.
C10_HistoryMonotone ==
  [][ \/ \A k \in DOMAIN fixHistory :
           k \in DOMAIN fixHistory' /\ fixHistory'[k] >= fixHistory[k]
      \/ op'.name = "clearFixHistory" /\ fixHistory' = EmptyHistory ]_vars

C10_Witness ==
  /\ op.name = "clearFixHistory"
  /\ fixHistory = EmptyHistory
  /\ \E i \in DOMAIN runs : \E k \in DOMAIN runs[i].calls : runs[i].calls[k] = Ceiling

\* C11: at any time at most one fix loop is active, whichever entry point asks
\* for it: while a call of autoFixDiagnostics or smartAutoFix is in progress no
\* second call is started
C11_SingleFixLoop ==
  [][ (\E i \in DOMAIN runs : runs[i].pc \in {"model", "wait", "rerun"})
        => Len(runs') <= Len(runs) ]_vars

\* the timers pending for a path
PendingFor(pending, path) == { t \in pending : t.path = path }

\* C12: saves of one file that follow one another within the debounce window
\* lead to one auto-fix pass, after the last of them: a save that is taken
\* (auto-fix on save on, file not ignored) leaves exactly one timer pending for
\* its file, the one it set, and the timers of other files as they were; the
\* timer that fires is the only one pending for its file and leaves none
C12_Debounce ==
  [][ /\ op'.name = "save" /\ autoFixOnSave /\ ~shouldIgnoreFile(op'.path) =>
           /\ PendingFor(pendingTimers', op'.path) = { [handle |-> saves', path |-> op'.path] }
           /\ \A q \in SavedPaths \ {op'.path} :
                PendingFor(pendingTimers', q) = PendingFor(pendingTimers, q)
      /\ op'.name = "autoFixFile" =>
           /\ PendingFor(pendingTimers, op'.path) = { [handle |-> op'.timer, path |-> op'.path] }
           /\ PendingFor(pendingTimers', op'.path) = {}
           /\ \A q \in SavedPaths \ {op'.path} :
                PendingFor(pendingTimers', q) = PendingFor(pendingTimers, q) ]_vars

\* a save has cancelled the timer of an earlier save of its file while the timer
\* of another file stays pending
C12_Witness ==
  /\ op.name = "save" /\ op.cancelled # NONE
  /\ \E t \in pendingTimers : t.path # op.path /\ t.handle < op.cancelled[1]

\* C13: after the user aborts while the answer streams, no file action and no
\* command parsed from the partial answer is executed and no fix attempt is
\* started
C13_AbortStopsActions ==
  [][ chat.aborted /\ op'.name = "chatFinish" =>
        files' = files /\ execLog' = execLog /\ runs' = runs ]_vars

\* C14: a text without error indicators has hasErrors false and no parsed
\* errors: whenever parseErrors returns a record for a text, hasErrors is true
\* for it
C14_CleanTextNoErrors ==
  ret.fn = "errorDetector" /\ ~ret.hasErrors => ret.errors = <<>>

\* C15: a text with two or more occurrences of one (message, file, line)
\* identity, written differently or not, yields exactly one record of that
\* identity: no two records returned have equal message, file and line
C15_OneRecordPerIdentity ==
  ret.fn = "errorDetector" =>
    \A i, j \in DOMAIN ret.errors :
      i # j => errorKey(ret.errors[i]) # errorKey(ret.errors[j])

\* C16: isCommandSafe is false for "rm -rf /tmp/x", true for "npm run build",
\* false for "curl https://x -X POST" and false for "xyz-unknown-tool --flag",
\* with or without white space around the command
C16_ReferenceClassifications ==
  ret.fn = "isCommandSafe" =>
    /\ op.base = "rm -rf /tmp/x" => ~ret.safe
    /\ op.base = "npm run build" => ret.safe
    /\ op.base = "curl https://x -X POST" => ~ret.safe
    /\ op.base = "xyz-unknown-tool --flag" => ~ret.safe

\* the build command was classified with white space on both sides
C16_Witness ==
  /\ ret.fn = "isCommandSafe" /\ ret.safe
  /\ op.base = "npm run build" /\ op.lead = "\t" /\ op.trail = "\n"

\* C17: the result autoFixDiagnostics or smartAutoFix returns has success true
\* exactly when its remainingErrors is empty, and every error of its
\* remainingErrors is one of the errors the call was given
C17_SuccessIffNoneRemaining ==
  op.name = "return" =>
    /\ op.result.success <=> op.result.remainingErrors = <<>>
    /\ Range(op.result.remainingErrors) \subseteq Range(op.input)

\* smartAutoFix has returned some of its errors as remaining, without success
C17_Witness ==
  /\ op.name = "return" /\ op.fn = "smartAutoFix"
  /\ ~op.result.success
  /\ op.result.remainingErrors # <<>>
  /\ Len(op.result.remainingErrors) < Len(op.input)

\* the model invocations a call has made, over all its errors
RECURSIVE Invocations(_, _)
Invocations(calls, keys) ==
  IF keys = {} THEN 0
  ELSE LET k == CHOOSE q \in keys : TRUE
       IN  calls[k] + Invocations(calls, keys \ {k})

\* C18: every fix loop is bounded: a call of autoFixDiagnostics makes at most
\* maxAutoFixRetries iterations and so at most that many model invocations,
\* smartAutoFix at most maxAutoFixRetries iterations for each file group,
\* runWithAutoFix starts the command and asks for a fix at most maxRetries times
\* each; and an iteration that is not skipped raises the history count of its
\* error by one in the same step, before another error is selected
C18_BoundedLoops ==
  [][ /\ \A i \in DOMAIN runs' :
           /\ runs'[i].fn \in {"autoFixDiagnostics", "smartAutoFix"} =>
                runs'[i].iterations <= maxAutoFixRetries
           /\ runs'[i].fn = "autoFixDiagnostics" =>
                Invocations(runs'[i].calls, DOMAIN runs'[i].calls) <= maxAutoFixRetries
           /\ runs'[i].fn = "runWithAutoFix" =>
                /\ runs'[i].commandRuns <= runs'[i].maxRetries
                /\ runs'[i].fixCalls <= runs'[i].maxRetries
      /\ op'.name = "iterate" /\ op'.invoked =>
           HistoryGet(fixHistory', op'.key) = HistoryGet(fixHistory, op'.key) + 1 ]_vars

\* runWithAutoFix is in its last attempt, the command started and a fix asked
\* for as often as maxRetries allows
C18_Witness ==
  \E i \in DOMAIN runs :
    /\ runs[i].fn = "runWithAutoFix" /\ runs[i].pc = "generate"
    /\ runs[i].maxRetries = DefaultMaxRetries
    /\ runs[i].commandRuns = DefaultMaxRetries /\ runs[i].fixCalls = DefaultMaxRetries

\* C19: within one file's batch the errors are attempted in the order of their
\* fix priority: the error an iteration of autoFixDiagnostics or smartAutoFix
\* selects has the smallest getFixPriority among the errors of the batch that
\* remain
C19_PriorityOrder ==
  [][ op'.name = "iterate" =>
        \E batch \in { IF runs[op'.run].fn = "smartAutoFix"
                        THEN runs[op'.run].remaining
                        ELSE runs[op'.run].result.remainingErrors } :
          /\ errorKey(batch[1]) = op'.key
          /\ \A j \in DOMAIN batch :
               getFixPriority(batch[1]) <= getFixPriority(batch[j]) ]_vars

\* C20: when the diagnostics queue moves on from one file to the next, every
\* error of the finished file's batch is in a terminal state: the last
\* verification saw it absent, or its history count is at the ceiling. Stated
\* where the queue's call for a file returns with errors of another file
\* queued, after which processDiagnosticsQueue takes the next file
C20_BatchDrained ==
  op.name = "return" /\ op.entry = "processDiagnosticsQueue" /\ fixQueue # <<>> =>
    \A i \in DOMAIN op.input :
      \/ op.verified # NONE /\ errorKey(op.input[i]) \notin op.verified[1]
      \/ HistoryGet(fixHistory, errorKey(op.input[i])) >= Ceiling

----------------------------------------------------------------------------
(* Properties of the diagnostics queue *)

\* the queue a drain step takes its batch from: the queue as the event that
\* starts the drain loop left it, or the queue the loop finds
QueueAtTake ==
  IF op'.name = "diagnosticsChanged"
  THEN Enqueue(fixQueue, EventErrors(op'.uris, diag))
  ELSE fixQueue

\* a call of autoFixDiagnostics by processDiagnosticsQueue starts in this step
BatchStarts ==
  /\ Len(runs') = Len(runs) + 1
  /\ runs'[Len(runs')].entry = "processDiagnosticsQueue"

\* C21: the queue is drained one file at a time in FIFO order: a drain step
\* takes the file of the oldest queued error, hands all queued errors of that
\* file and only those to autoFixDiagnostics as one batch, in queue order, leaves
\* the others queued in their order, and is not taken while the call for the
\* batch before is still in progress
C21_FifoDrain ==
  [][ BatchStarts =>
        \E queue \in { QueueAtTake } :
        \E batch \in { runs'[Len(runs')].input } :
          /\ ~Draining
          /\ queue # <<>>
          /\ \A i \in DOMAIN batch : batch[i].file = queue[1].file
          /\ \A i \in DOMAIN fixQueue' : fixQueue'[i].file # queue[1].file
          /\ Len(batch) + Len(fixQueue') = Len(queue)
          /\ \A i, j \in DOMAIN queue :
               i < j =>
                 /\ queue[i].file = queue[1].file /\ queue[j].file = queue[1].file =>
                      \E a, b \in DOMAIN batch :
                        a < b /\ batch[a] = queue[i] /\ batch[b] = queue[j]
                 /\ queue[i].file # queue[1].file /\ queue[j].file # queue[1].file =>
                      \E a, b \in DOMAIN fixQueue' :
                        a < b /\ fixQueue'[a] = queue[i] /\ fixQueue'[b] = queue[j] ]_vars

\* the drain loop has taken the batch of /w/b.ts, queued first, and left the
\* two errors of /w/a.ts that were queued after it
C21_Witness ==
  /\ op.name = "queueNext" /\ op.moved
  /\ \E i \in DOMAIN runs :
       /\ runs[i].entry = "processDiagnosticsQueue"
       /\ runs[i].input = OtherFileErrors
  /\ Len(fixQueue) = 2
  /\ \A i \in DOMAIN fixQueue : fixQueue[i].file = Some(uriPath)

\* the calls of autoFixDiagnostics that processDiagnosticsQueue awaits
DrainCalls == { i \in DOMAIN runs : runs[i].entry = "processDiagnosticsQueue" }

\* processDiagnosticsQueue leaves its loop in this step: the queue is empty
\* after the delay, or the awaited call rejects
DrainExits ==
  \/ op'.name = "queueNext" /\ ~op'.moved
  \/ op'.name = "throw" /\ op'.entry = "processDiagnosticsQueue"

\* C22: at most one drain loop is active for any interleaving of diagnostics
\* events, and isFixing is true exactly while it is in progress: a call the loop
\* awaits implies the flag, the flag goes up only in the step that takes the
\* first batch, and it goes down in every step that leaves the loop (the queue
\* found empty, or the awaited call throwing) and in no other step
C22_OneDrainLoop ==
  [][ /\ Cardinality(DrainCalls) <= 1
      /\ DrainCalls # {} => isFixing
      /\ ~isFixing => (BatchStarts <=> isFixing')
      /\ isFixing => (DrainExits <=> ~isFixing') ]_vars

\* the call the drain loop awaited has thrown while errors of another file were
\* queued: the flag is down again
C22_Witness ==
  /\ op.name = "throw" /\ op.entry = "processDiagnosticsQueue"
  /\ fixQueue # <<>> /\ ~isFixing

\* the errors a diagnostics event can enqueue
QueueErrors == { diagnosticToError(d) : d \in Diagnostics } \cup Range(OtherFileErrors)

\* the error is in a batch autoFixDiagnostics is working on for the drain loop
Handed(e) == \E i \in DrainCalls : e \in Range(runs[i].input)

C24_NoDuplicateEntries ==
  [][ /\ \A i, j \in DOMAIN fixQueue' :
           /\ fixQueue'[i].file = fixQueue'[j].file
           /\ fixQueue'[i].line = fixQueue'[j].line
           /\ fixQueue'[i].message = fixQueue'[j].message
           => i = j
      /\ /\ op'.name = "diagnosticsChanged" /\ isFixing
         /\ Range(EventErrors(op'.uris, diag)) \subseteq Range(fixQueue)
         => fixQueue' = fixQueue ]_vars

\* an event reported the error of /w/b.ts again while it was queued behind the
\* batch of /w/a.ts: nothing was pushed
C24_Witness ==
  /\ op.name = "diagnosticsChanged" /\ op.uris = <<otherPath>> /\ op.pushed = 0
  /\ fixQueue = OtherFileErrors
  /\ \E i \in DrainCalls : runs[i].input[1].file = Some(uriPath)

\* C25: no error of a file on the ignore list is reported through
\* onDiagnosticsChanged or enqueued for fixing, whichever event produced it:
\* neither the queue nor a batch taken from it holds an error of such a file
C25_IgnoredNeverQueued ==
  \A e \in Range(fixQueue) \cup UNION { Range(runs[i].input) : i \in DrainCalls } :
    ~shouldIgnoreFile(e.file[1])

\* C26: with auto-fix on save on, when the debounce timer of a saved file fires
\* while the file has current errors the fix engine is at work on that file's
\* errors after the step, and a call of the fix engine for a file's diagnostics
\* starts only in such a step, not in the step of a diagnostics event
C26_FixOnDebounceExpiry ==
  [][ /\ op'.name = "autoFixFile" /\ autoFixOnSave /\ op'.result.remaining > 0 =>
           \E i \in DOMAIN runs' : runs'[i].input[1].file = Some(op'.path)
      /\ BatchStarts => op'.name = "autoFixFile" ]_vars

----------------------------------------------------------------------------
(* Properties of failing attempts and actions *)

\* C27: a model invocation that throws aborts only the current attempt: the
\* call of autoFixDiagnostics or smartAutoFix goes on (it is back at the head of
\* its loop), the history holds the attempt for the target identity and is not
\* touched by the failure, errorsFailed is one more, and the errors that remain
\* are the same
C27_ModelFailureAbortsAttempt ==
  [][ op'.name = "modelFails" =>
        \E i \in { op'.run } :
          /\ Len(runs') = Len(runs)
          /\ runs'[i].pc = "loop"
          /\ fixHistory' = fixHistory
          /\ HistoryGet(fixHistory, errorKey(runs[i].errorToFix[1])) >= 1
          /\ HistoryGet(fixHistory, errorKey(runs[i].errorToFix[1])) =
               runs[i].before[errorKey(runs[i].errorToFix[1])]
               + runs[i].calls[errorKey(runs[i].errorToFix[1])]
          /\ runs'[i].result.errorsFailed = runs[i].result.errorsFailed + 1
          /\ runs'[i].result.remainingErrors = runs[i].result.remainingErrors
          /\ runs'[i].remaining = runs[i].remaining ]_vars

\* the second attempt on an error whose first attempt threw: the failure counted
\* toward the ceiling and the loop went on
C27_Witness ==
  /\ op.name = "iterate" /\ op.invoked
  /\ \E i \in { op.run } :
       /\ runs[i].result.attempts = 2
       /\ runs[i].result.errorsFailed = 1
       /\ runs[i].before[op.key] = 0
       /\ HistoryGet(fixHistory, op.key) = 2

\* the entries of the processing log of one kind, as the list of their indexes
RECURSIVE LogIndexes(_, _)
LogIndexes(log, kind) ==
  IF log = <<>> THEN <<>>
  ELSE (IF Head(log).kind = kind THEN <<Head(log).index>> ELSE <<>>)
       \o LogIndexes(Tail(log), kind)

\* the indexes of actions that satisfy Keep, ascending
RECURSIVE IndexesFrom(_, _, _)
IndexesFrom(actions, kinds, i) ==
  IF i > Len(actions) THEN <<>>
  ELSE (IF actions[i].type \in kinds /\ ~(actions[i].type = "command" /\ actions[i].isDangerous)
        THEN <<i>> ELSE <<>>) \o IndexesFrom(actions, kinds, i + 1)

\* the return of a direct AgentService.processAIResponse
BatchReturned == ret.fn = "agentService.processAIResponse"

\* C28: at the return of processAIResponse every create or edit action and every
\* safe command has status executed or failed, with error set when failed; an
\* action whose write succeeded has status executed whatever failed after it
\* and its content is still in the workspace unless a later action wrote the
\* same path; every create or edit action was processed, in order of
\* appearance, before every safe command, in order of appearance, and a failed
\* action stops none of them.
C28_FailureDoesNotAbortBatch ==
  BatchReturned =>
    /\ \A i \in DOMAIN ret.fileActions :
         ret.fileActions[i].type \in {"create", "edit"} =>
           /\ ret.fileActions[i].status \in {"executed", "failed"}
           /\ ret.fileActions[i].status = "failed" => ret.fileActions[i].error # NONE
           /\ op.fo[i] = "ok" =>
                /\ ret.fileActions[i].status = "executed"
                /\ (\A j \in DOMAIN ret.fileActions :
                      j > i => \/ ret.fileActions[j].path # ret.fileActions[i].path
                               \/ op.fo[j] = "writeFail")
                   => /\ resolvePath(ret.fileActions[i].path) \in DOMAIN files
                      /\ files[resolvePath(ret.fileActions[i].path)] = ret.fileActions[i].content
    /\ \A i \in DOMAIN ret.terminalActions :
         ~ret.terminalActions[i].isDangerous =>
           /\ ret.terminalActions[i].status \in {"executed", "failed"}
           /\ ret.terminalActions[i].status = "failed" => ret.terminalActions[i].error # NONE
    /\ ret.log = [ k \in 1..Len(LogIndexes(ret.log, "file")) |->
                     [kind |-> "file", index |-> LogIndexes(ret.log, "file")[k]] ]
                 \o [ k \in 1..Len(LogIndexes(ret.log, "command")) |->
                     [kind |-> "command", index |-> LogIndexes(ret.log, "command")[k]] ]
    /\ LogIndexes(ret.log, "file") = IndexesFrom(ret.fileActions, {"create", "edit"}, 1)
    /\ LogIndexes(ret.log, "command") = IndexesFrom(ret.terminalActions, {"command"}, 1)

\* a batch whose first write failed and whose second write and safe command
\* succeeded, with a dangerous command left pending
C28_Witness ==
  /\ BatchReturned
  /\ Len(ret.fileActions) = 2 /\ Len(ret.terminalActions) = 2
  /\ ret.fileActions[1].status = "failed"
  /\ ret.fileActions[2].status = "executed"
  /\ ret.terminalActions[1].status = "executed"
  /\ ret.terminalActions[2].status = "pending"

----------------------------------------------------------------------------
(* Properties of output that cannot be classified *)

\* output with error indicators in which parseErrors finds no record
ClassificationMiss(output) == hasErrors(output) /\ parseErrors(output, files) = <<>>

\* the output a runWithAutoFix call at its command step is given in this step
ObservedOutput(i) ==
  IF Len(runs') = Len(runs) THEN runs'[i].result.finalOutput ELSE op'.result.finalOutput

\* runWithAutoFix at a classification miss: the call returns in the step that
\* reads the output, with success false
MissEndsRunWithAutoFix ==
  \A i \in DOMAIN runs :
    runs[i].fn = "runWithAutoFix" /\ runs[i].pc = "command"
    /\ ClassificationMiss(ObservedOutput(i))
    => /\ Len(runs') = Len(runs) - 1
       /\ op'.name = "return" /\ ~op'.result.success
       /\ modelCalls' = modelCalls /\ execLog' = execLog \cup
            { [command |-> runs[i].command, via |-> "autoFix"] }

\* runCommandWithAutoFix whose command gave a classification miss: at its
\* return the command has run once, no fix was asked for and success is false
MissEndsRunCommandWithAutoFix ==
  op'.name = "return" /\ op'.fn = "runCommandWithAutoFix" /\ ClassificationMiss(op'.first)
  => op'.commandRuns = 1 /\ op'.fixCalls = 0 /\ ~op'.result.success

\* C29: when the output of a command run with automatic fixing has error
\* indicators and parseErrors finds no record in it, the model is not invoked
\* for it, the command is not run again and the run is reported unsuccessful.
C29_MissReportedNotRetried ==
  [][ MissEndsRunWithAutoFix /\ MissEndsRunCommandWithAutoFix ]_vars

\* the part that is about runWithAutoFix alone, and a return of its second
\* attempt at a classification miss
RunWithAutoFixStopsAtMiss == [][ MissEndsRunWithAutoFix ]_vars

RunWithAutoFixMissReached ==
  op.name = "return" /\ op.fn = "runWithAutoFix" /\ ClassificationMiss(op.result.finalOutput)
  /\ op.result.attempts = 2

----------------------------------------------------------------------------
(* Properties of command extraction *)

\* a line of a shell block that is neither empty nor a comment
IsCommandLine(line) == Trim(line) # "" /\ ~StartsWith(Trim(line), "#")

\* one command for every command line, the prompt marker stripped
RECURSIVE CommandsOfLines(_)
CommandsOfLines(lines) ==
  IF lines = <<>> THEN <<>>
  ELSE (IF IsCommandLine(Head(lines)) THEN <<CleanCommand(Trim(Head(lines)))>> ELSE <<>>)
       \o CommandsOfLines(Tail(lines))

RECURSIVE CommandsOfBlocks(_)
CommandsOfBlocks(ms) ==
  IF ms = <<>> THEN <<>>
  ELSE CommandsOfLines(SplitLines(Head(ms).content)) \o CommandsOfBlocks(Tail(ms))

\* C30: the actions parseCommandsFromResponse extracts are, in order, one
\* command action for every non-empty line that is not a comment of every
\* fenced shell-language block, a line with a leading prompt marker giving the
\* command without the marker, and each of them has status pending.
C30_CommandExtraction ==
  BatchReturned =>
    /\ [k \in DOMAIN op.commands |-> op.commands[k].command]
         = CommandsOfBlocks(ShellBlocks(op.response, 1))
    /\ \A k \in DOMAIN op.commands :
         op.commands[k].type = "command" /\ op.commands[k].status = "pending"

\* the blocks without their lines that start with a prompt marker
RECURSIVE WithoutMarkerLines(_)
WithoutMarkerLines(ms) ==
  IF ms = <<>> THEN <<>>
  ELSE <<SelectSeq(SplitLines(Head(ms).content), LAMBDA l : ~StartsWith(Trim(l), "$"))>>
       \o WithoutMarkerLines(Tail(ms))

RECURSIVE CommandsOfLineLists(_)
CommandsOfLineLists(ls) ==
  IF ls = <<>> THEN <<>> ELSE CommandsOfLines(Head(ls)) \o CommandsOfLineLists(Tail(ls))

\* the same for the lines that carry no prompt marker
ExtractionWithoutMarkers ==
  BatchReturned =>
    /\ [k \in DOMAIN op.commands |-> op.commands[k].command]
         = CommandsOfLineLists(WithoutMarkerLines(ShellBlocks(op.response, 1)))
    /\ \A k \in DOMAIN op.commands :
         op.commands[k].type = "command" /\ op.commands[k].status = "pending"

\* a response with two shell blocks, a marker line and two commands has returned
ExtractionReached ==
  BatchReturned /\ Len(op.commands) = 2 /\ Len(ShellBlocks(op.response, 1)) = 2

----------------------------------------------------------------------------
(* Properties of file-action extraction *)

\* a matched block with a path annotation that is not blank and content that
\* is not blank
Actionable(m) ==
  m.filePath # NONE /\ Trim(m.filePath[1]) # "" /\ Trim(m.content) # ""

ParseReturned == op.name = "parseActionsFromResponse"

\* C31: the file actions parsed from a response are, in order, those of its
\* fenced blocks that carry a non-empty path and non-empty content; each has
\* that path and content, status pending, and type edit with the file's content
\* as originalContent when the path exists in the workspace, type create with
\* no originalContent otherwise; none is a delete.
C31_FileActionExtraction ==
  ParseReturned =>
    /\ [k \in DOMAIN op.actions |-> <<op.actions[k].path, op.actions[k].content>>]
         = [k \in DOMAIN SelectSeq(CodeBlocks(op.response, 1), Actionable) |->
              <<Trim(SelectSeq(CodeBlocks(op.response, 1), Actionable)[k].filePath[1]),
                Trim(SelectSeq(CodeBlocks(op.response, 1), Actionable)[k].content)>>]
    /\ \A k \in DOMAIN op.actions :
         /\ op.actions[k].path # "" /\ op.actions[k].content # ""
         /\ op.actions[k].status = "pending"
         /\ op.actions[k].type \in {"edit", "create"}
         /\ op.actions[k].type = "edit" <=> resolvePath(op.actions[k].path) \in DOMAIN files
         /\ op.actions[k].originalContent =
              IF resolvePath(op.actions[k].path) \in DOMAIN files
              THEN Some(files[resolvePath(op.actions[k].path)]) ELSE NONE

\* a response with a block without a path, a block without content and a block
\* for a file the executor has written before: one edit action
C31_Witness ==
  /\ ParseReturned
  /\ Len(CodeBlocks(op.response, 1)) = 3
  /\ Len(op.actions) = 1
  /\ op.actions[1].type = "edit"
  /\ op.actions[1].originalContent = Some("x")

----------------------------------------------------------------------------
(* Properties of the order of parsed errors *)

SeverityRank(severity) ==
  CASE severity = "error" -> 0 [] severity = "warning" -> 1 [] OTHER -> 2

\* a precedes or equals b by severity, then by line with no line counted as 0
InOrder(a, b) ==
  \/ SeverityRank(a.severity) < SeverityRank(b.severity)
  \/ a.severity = b.severity /\ LineOrZero(a) <= LineOrZero(b)

Sign(n) == IF n < 0 THEN -1 ELSE IF n > 0 THEN 1 ELSE 0

\* the list returned holds the errors pushed, ordered
SortedReturn ==
  op.name = "sortErrors" =>
    /\ Len(op.result) = Len(op.input)
    /\ \A r \in Range(op.input) \cup Range(op.result) :
         Cardinality({ k \in DOMAIN op.input : op.input[k] = r })
           = Cardinality({ k \in DOMAIN op.result : op.result[k] = r })
    /\ \A i \in DOMAIN op.result : \A j \in DOMAIN op.result :
         i < j => InOrder(op.result[i], op.result[j])

\* the comparator on a, b, c: antisymmetric, transitive and in agreement with
\* the order
ConsistentOn(severities) ==
  op.name = "compare" /\ {op.a.severity, op.b.severity, op.c.severity} \subseteq severities =>
    /\ Sign(op.ab) = 0 - Sign(op.ba)
    /\ op.ab <= 0 /\ op.bc <= 0 => op.ac <= 0
    /\ op.ab <= 0 <=> InOrder(op.a, op.b)

\* C32 as stated: the list parseErrors returns is sorted by severity, error
\* before warning before info, then by line ascending with a missing line
\* counted as 0, and the comparator is a consistent total preorder over the
\* three severities.
C32_SortedAllSeverities == SortedReturn /\ ConsistentOn(Severities)

\* C32 amended: the list parseErrors returns is sorted by severity, error
\* before warning before info, then by line ascending with a missing line
\* counted as 0, and the comparator is a consistent total preorder over the two
\* severities parseErrors produces, error and warning.
C32_SortedProducedSeverities == SortedReturn /\ ConsistentOn(ProducedSeverities)

\* three errors pushed with a warning first and an error without a line last
C32_Witness ==
  /\ op.name = "sortErrors"
  /\ Len(op.input) = 3
  /\ op.input[1].severity = "warning" /\ op.input[1].line = Some(1)
  /\ op.input[3].severity = "error" /\ op.input[3].line = NONE
  /\ op.result[1] = op.input[3]
  /\ op.result[3].severity = "warning"

----------------------------------------------------------------------------
(* Properties of the fix priority *)

\* the kinds in the order they are to be fixed
PriorityChain == <<"syntax", "typescript", "module", "eslint", "runtime", "build">>

\* the place of a kind in the chain, behind it for every other kind
ChainPlace(type) ==
  IF \E i \in DOMAIN PriorityChain : PriorityChain[i] = type
  THEN CHOOSE i \in DOMAIN PriorityChain : PriorityChain[i] = type
  ELSE Len(PriorityChain) + 1

\* C33: getFixPriority orders the kinds syntax, typescript, module, eslint,
\* runtime, build and then every other kind: it returns 1 to 6 for the six
\* kinds and 10 for every other kind, the generic lint and unknown included.
C33_FixPriorityOrder ==
  op.name = "getFixPriority" =>
    /\ op.pa < op.pb <=> ChainPlace(op.a) < ChainPlace(op.b)
    /\ op.pa = op.pb <=> ChainPlace(op.a) = ChainPlace(op.b)
    /\ op.pa = IF ChainPlace(op.a) <= Len(PriorityChain) THEN ChainPlace(op.a) ELSE 10

\* the priorities of eslint and of the generic lint kind were asked for
C33_Witness ==
  op.name = "getFixPriority" /\ op.a = "eslint" /\ op.b = "lint" /\ op.pa = 4 /\ op.pb = 10

----------------------------------------------------------------------------
(* Properties of the file writers *)

\* what createFile called in the state before the step would have returned
AsCreated == createFile(files, op'.path, op'.content, op'.outcome)

\* C34: editFile on a path that does not exist leaves the workspace and returns
\* the value createFile would with the same path and content; on an existing
\* path whose write goes through the file has the new content and nothing else
\* changes; a failure of the write or of the editor is returned as success
\* false with an error message.
C34_EditAsCreate ==
  [][ op'.name = "editFile" =>
        /\ resolvePath(op'.path) \notin DOMAIN files =>
             /\ files' = AsCreated.files
             /\ ret'.success = AsCreated.success /\ ret'.error = AsCreated.error
        /\ resolvePath(op'.path) \in DOMAIN files /\ op'.outcome # "writeFail" =>
             /\ DOMAIN files' = DOMAIN files
             /\ \A q \in DOMAIN files :
                  files'[q] = IF q = resolvePath(op'.path) THEN op'.content ELSE files[q]
        /\ ret'.success <=> op'.outcome = "ok"
        /\ ~ret'.success => ret'.error # NONE
        /\ op'.outcome = "writeFail" => files' = files ]_vars

\* editFile has created b.ts, given by its absolute path, next to a.ts
C34_Witness ==
  /\ op.name = "editFile" /\ op.path = "/w/b.ts" /\ op.content = "x" /\ op.outcome = "ok"
  /\ ret.success
  /\ DOMAIN files = {"/w/a.ts", "/w/b.ts"}
  /\ files["/w/b.ts"] = "x" /\ files["/w/a.ts"] = "old"

----------------------------------------------------------------------------
(* Properties of composed commands *)

\* the segments of a command text between ';', '&&', '||' and '|'
RECURSIVE ShellSegments(_, _, _)
ShellSegments(s, start, i) ==
  IF i > Len(s) THEN <<SubSeq(s, start, Len(s))>>
  ELSE IF HasAt(s, i, "&&") \/ HasAt(s, i, "||")
  THEN <<SubSeq(s, start, i - 1)>> \o ShellSegments(s, i + 2, i + 2)
  ELSE IF HasAt(s, i, ";") \/ HasAt(s, i, "|")
  THEN <<SubSeq(s, start, i - 1)>> \o ShellSegments(s, i + 1, i + 1)
  ELSE ShellSegments(s, start, i + 1)

\* a command text of several segments one of which matches the dangerous set
HasDangerousSegment(command) ==
  /\ Len(ShellSegments(command, 1, 1)) > 1
  /\ \E k \in DOMAIN ShellSegments(command, 1, 1) :
       MatchesDangerous(Trim(ShellSegments(command, 1, 1)[k]))

\* C35: a command text of several segments joined by ';', '&&', '||' or '|' of
\* which one matches the dangerous set does not pass the safety gate: runCommand
\* answers that it needs approval and no response makes it run unattended.
C35_NoDangerousSegmentPasses ==
  /\ op.name = "runCommand" /\ HasDangerousSegment(op.command) => ret.needsApproval
  /\ \A e \in execLog : e.via = "auto" => ~HasDangerousSegment(e.command)

----------------------------------------------------------------------------
(* Properties of the result of smartAutoFix over several files *)

\* a return of smartAutoFix after at least one verification run
VerifiedReturn ==
  op.name = "return" /\ op.fn = "smartAutoFix" /\ op.verified # NONE

\* C36: the remainingErrors smartAutoFix returns hold the unfixed errors of
\* every file group: every input error that the last verification output still
\* shows is among them, whatever its file, and a return with success true has
\* none of the input errors in that output.
C36_RemainingOfEveryGroup ==
  VerifiedReturn =>
    /\ \A e \in Range(op.input) :
         errorKey(e) \in op.verified[1] => e \in Range(op.result.remainingErrors)
    /\ op.result.success =>
         \A e \in Range(op.input) : errorKey(e) \notin op.verified[1]

----------------------------------------------------------------------------
(* Properties of the result of autoFixDiagnostics *)

\* the model invocations of a call, over all identities
RECURSIVE SumCalls(_, _)
SumCalls(calls, keys) ==
  IF keys = {} THEN 0
  ELSE LET k == CHOOSE k \in keys : TRUE
       IN  calls[k] + SumCalls(calls, keys \ {k})

\* the iterations of a returned call that skipped an error at the ceiling:
\* every iteration is counted in attempts and every other one invoked the model
SkippedAtCeiling == op.result.attempts - SumCalls(op.calls, DOMAIN op.calls)

AfdReturned == op.name = "return" /\ op.fn = "autoFixDiagnostics"

\* errorsFixed, the remaining errors and the errors skipped add up to the input
AccountingAdds ==
  AfdReturned =>
    op.result.errorsFixed + Len(op.result.remainingErrors) + SkippedAtCeiling
      = Len(op.input)

\* C37: at the return of autoFixDiagnostics errorsFixed plus the number of
\* remaining errors plus the number of errors skipped at the ceiling is the
\* number of input errors, and no error is both in fixedErrors and in
\* remainingErrors.
C37_ResultAccounting ==
  /\ AccountingAdds
  /\ AfdReturned =>
       Range(op.result.fixedErrors) \cap Range(op.result.remainingErrors) = {}

----------------------------------------------------------------------------
(* The identity key on errors whose messages and files hold the separator *)

\* the template string message-file-line evaluated on two errors
KeyOfErrors ==
  /\ \E a \in KeyedErrors, b \in KeyedErrors :
       op' = [name |-> "errorKey", a |-> a, b |-> b,
              ka |-> errorKey(a), kb |-> errorKey(b)]
  /\ UNCHANGED agentVars
  /\ UNCHANGED fixVars
  /\ UNCHANGED serviceVars

\* parseErrors on a compiler output of two lines
ParseKeyedOutput ==
  /\ \E a \in KeyedErrors, b \in KeyedErrors :
       \E output \in { CompilerLine(a) \o "\n" \o CompilerLine(b) } :
         op' = [name |-> "parseErrors", a |-> a, b |-> b, output |-> output,
                errors |-> parseErrors(output, files)]
  /\ UNCHANGED agentVars
  /\ UNCHANGED fixVars
  /\ UNCHANGED serviceVars

\* queueDiagnosticsForFix on two errors and an empty queue
QueueKeyedErrors ==
  /\ \E a \in KeyedErrors, b \in KeyedErrors :
       op' = [name |-> "queueDiagnosticsForFix", a |-> a, b |-> b,
              queue |-> Enqueue(<<>>, <<a, b>>)]
  /\ UNCHANGED agentVars
  /\ UNCHANGED fixVars
  /\ UNCHANGED serviceVars

\* the first iteration head of autoFixDiagnostics([a]) and then of
\* autoFixDiagnostics([b]) on a new AgentIntegration: the attempt history
\* after the two
CountKeyedAttempts ==
  /\ \E a \in KeyedErrors, b \in KeyedErrors :
       \E first \in { IterationHead(NewResult(<<a>>), EmptyHistory).history } :
         op' = [name |-> "fixHistory", a |-> a, b |-> b,
                history |-> IterationHead(NewResult(<<b>>), first).history]
  /\ UNCHANGED agentVars
  /\ UNCHANGED fixVars
  /\ UNCHANGED serviceVars

NextKeys ==
  \/ KeyOfErrors
  \/ ParseKeyedOutput
  \/ QueueKeyedErrors
  \/ CountKeyedAttempts

SpecKeys == InitAgent /\ [][NextKeys]_vars

\* two errors differ in message, file or line
OtherTriple(a, b) ==
  a.message # b.message \/ a.file # b.file \/ a.line # b.line

KeysDiffer ==
  op.name = "errorKey" /\ OtherTriple(op.a, op.b) => op.ka # op.kb

NotMergedByParseErrors ==
  op.name = "parseErrors" /\ OtherTriple(op.a, op.b) =>
    \A e \in {op.a, op.b} : ResolveErrorFile(e, files) \in Range(op.errors)

NotMergedByQueue ==
  op.name = "queueDiagnosticsForFix" /\ OtherTriple(op.a, op.b) =>
    op.queue = <<op.a, op.b>>

CountersApart ==
  op.name = "fixHistory" /\ OtherTriple(op.a, op.b) =>
    /\ HistoryGet(op.history, errorKey(op.a)) = 1
    /\ HistoryGet(op.history, errorKey(op.b)) = 1

\* C38: two errors that differ in message, file or line never have the same
\* identity key, are never merged by parseErrors or by the queue, and never
\* share a counter of the attempt history.
C38_KeyInjective ==
  /\ KeysDiffer
  /\ NotMergedByParseErrors
  /\ NotMergedByQueue
  /\ CountersApart

----------------------------------------------------------------------------
(* Properties of the outcome of runWithAutoFix *)

\* a step returns from runWithAutoFix
RwfReturns == op'.name = "return" /\ op'.fn = "runWithAutoFix"

\* the step is the end of a run of the command
EndsCommandRun == \E i \in DOMAIN runs : runs[i].fn = "runWithAutoFix" /\ runs[i].pc = "command"

\* success is reported only by the step that ends a run of the command with
\* exit code 0 and no error indicator in the output
SuccessOnlyFromPassingRun ==
  [][ RwfReturns /\ op'.result.success =>
        EndsCommandRun /\ ~hasErrors(op'.result.finalOutput) ]_vars

\* C39: runWithAutoFix reports its outcome only after the command has run on
\* the workspace as the last applied fix left it (the step that returns writes
\* no file), and it reports success only at the end of a run of the command
\* that exits with code 0 and shows no error indicator.
C39_FixVerifiedBeforeReport ==
  [][ RwfReturns =>
        /\ files' = files
        /\ op'.result.success =>
             EndsCommandRun /\ ~hasErrors(op'.result.finalOutput) ]_vars

----------------------------------------------------------------------------
(* Fix attempts whose model response holds a command that needs approval *)

\* answers of the model to a fix prompt: a file block, and a block of commands
\* of which the second is dangerous
ApprovalFixResponses ==
  { "~~~ts:a.ts\nx\n~~~", "~~~bash\nnpm run build\nrm -rf x\n~~~" }

NextApprovals ==
  \/ Idle /\ FixAllInFile
  \/ Idle /\ CallSmartAutoFix
  \/ \E i \in DOMAIN runs : SafSkip(i)
  \/ \E i \in DOMAIN runs : SafAttempt(i)
  \/ \E i \in DOMAIN runs : SafModelFails(i)
  \/ \E i \in DOMAIN runs : SafApplyFixOf(i, ApprovalFixResponses)
  \/ \E i \in DOMAIN runs : SafVerify(i)
  \/ \E i \in DOMAIN runs : SafGroupEnd(i)
  \/ \E i \in DOMAIN runs : SafReturn(i)
  \/ \E i \in DOMAIN runs : AfdSkip(i)
  \/ \E i \in DOMAIN runs : AfdAttempt(i)
  \/ \E i \in DOMAIN runs : AfdModelFails(i)
  \/ \E i \in DOMAIN runs : AfdApplyFixOf(i, ApprovalFixResponses)
  \/ \E i \in DOMAIN runs : AfdVerify(i)
  \/ \E i \in DOMAIN runs : AfdReturn(i)
  \/ ApproveAction

SpecApprovals == InitFix /\ [][NextApprovals]_vars

\* no command that isCommandSafe rejects has run without an approve message
NoneRunsUnapproved ==
  \A x \in execLog : isCommandSafe(x.command) \/ x.via = "approved"

\* C40: every action that needs approval and was parsed from the response of a
\* fix attempt of autoFixDiagnostics or smartAutoFix has been passed to
\* onPendingApprovals, whose host shows it as a card; and no command that needs
\* approval has run without an approve message.
C40_ApprovalsSurfaced ==
  /\ op.name = "applyFix" => Range(op.pendingApprovals) \subseteq cards
  /\ NoneRunsUnapproved

====
